---- MODULE Spec2Model ----
(***************************************************************************)
(* Model of @rolldown/plugin-babel's preset filter engine:                 *)
(*   rolldownPreset.ts  pattern matcher, dimension filter compiler,        *)
(*                      per-file preset selection                          *)
(*   options.ts         option resolution, converter (rule selector)       *)
(*   filter.ts          the transform-hook pre-filter (filter algebra)     *)
(*   index.ts           the plugin hooks that tie them together            *)
(*                                                                         *)
(* Encoding of JavaScript values:                                          *)
(*   - `undefined` is the empty tuple None, a defined value x is Some(x)   *)
(*   - a string is a tuple of one-character strings                        *)
(*   - a pattern is [kind, source, flags]: kind "s" a glob string, "r" a   *)
(*     RegExp, "f" a function entry (babel's ConfigApplicableTest only)    *)
(*   - `T | T[]` is [isArray, items]                                       *)
(*   - a closure is the data it captured                                   *)
(*                                                                         *)
(* Specifications:                                                         *)
(*   Spec         the plugin under Vite or plain Rolldown, one build       *)
(*   SpecRebuild  the plugin under Vite, configuration resolved again      *)
(*   SpecUnion    unionFilters, one loop iteration per step                *)
(*   SpecCompile  compilePresetFilter and calls of the compiled predicate  *)
(*   SpecMatcher  one dimension matcher with the lastIndex of its RegExps  *)
(***************************************************************************)
EXTENDS Naturals, Sequences, FiniteSets, TLC

VARIABLES
    rawOptions,        \* index.ts:14  the options babelPlugin was called with
    viteVersion,       \* index.ts:41  this.meta.viteVersion is defined (the host is Vite)
    configFilteredOptions, \* index.ts:15
    resolvedConfig,    \* index.ts:22  the config configResolved was called with
    applied,           \* index.ts:27-39 per environment: envOptions and the returned value
    configResolvedHookCalls,     \* options.ts:131 the calls of configResolvedHook made so far
    applyToEnvironmentHookCalls, \* options.ts:103 the calls of applyToEnvironmentHook made so far
    envState,          \* index.ts:16  converter per environment name
    transformFilter,   \* index.ts:47  plugin.transform.filter
    lastEnv,           \* index.ts:49  this.environment?.name of the latest transform call
    lastCtx,           \* index.ts:51  conversionContext of the latest transform call
    lastBabelOptions,  \* index.ts:56  babelOptions of the latest transform call
    thrown,            \* options.ts:103,131  the error a gate function threw out of a hook
    outputOptionsCalled, \* index.ts:40  the host has called outputOptions
    rawFilters,        \* filter.ts unionFilters: parameter rawFilters
    dimKind,           \* filter.ts unionFilters: which normalize/keyFn pair is passed
    loopIndex,         \* filter.ts unionFilters: number of rawFilters consumed by the loop
    matchAll,          \* filter.ts unionFilters: local matchAll
    includes,          \* filter.ts unionFilters: local includes
    excludeArrays,     \* filter.ts unionFilters: local excludeArrays
    unionResult,       \* filter.ts unionFilters: the returned DimensionUnion
    presetFilter,      \* rolldownPreset.ts compilePresetFilter: parameter filter
    compiledFilter,    \* rolldownPreset.ts compilePresetFilter: what it returned
    filterCtx,         \* the context the compiled filter was last called with
    filterVerdict,     \* what the compiled filter returned for filterCtx
    matcherFilter,     \* rolldownPreset.ts compileGeneralHookFilter: the include/exclude it captured
    includeLastIndex,  \* lastIndex of each RegExp object of the include list
    excludeLastIndex,  \* lastIndex of each RegExp object of the exclude list
    matcherValue,      \* the value the matcher was last called with
    matcherVerdict     \* what the matcher returned for matcherValue

pluginVars ==
    <<rawOptions, viteVersion, configFilteredOptions, resolvedConfig, applied,
      configResolvedHookCalls, applyToEnvironmentHookCalls, envState, transformFilter,
      lastEnv, lastCtx, lastBabelOptions, thrown, outputOptionsCalled>>
unionVars == <<rawFilters, dimKind, loopIndex, matchAll, includes, excludeArrays, unionResult>>
compileVars == <<presetFilter, compiledFilter, filterCtx, filterVerdict>>
matcherVars ==
    <<matcherFilter, includeLastIndex, excludeLastIndex, matcherValue, matcherVerdict>>
vars == <<pluginVars, unionVars, compileVars, matcherVars>>

----------------------------------------------------------------------------
(* JavaScript values *)

None == <<>>
Some(x) == <<x>>
IsSome(o) == o # <<>>
Get(o) == o[1]

Range(s) == {s[i] : i \in 1..Len(s)}

\* utils.ts arrayify
arrayify(value) == IF value.isArray THEN value.items ELSE <<value.items[1]>>

One(p) == [isArray |-> FALSE, items |-> <<p>>]
Arr(ps) == [isArray |-> TRUE, items |-> ps]

----------------------------------------------------------------------------
(* Patterns and the pattern matcher (rolldownPreset.ts:30-43) *)

Re(src, flags) == [kind |-> "r", source |-> src, flags |-> flags]
Str(src) == [kind |-> "s", source |-> src, flags |-> <<>>]
Fn == [kind |-> "f", source |-> <<>>, flags |-> <<>>]

\* String.prototype.toLowerCase on the model's alphabet
Lower(c) == IF c = "A" THEN "a" ELSE c
LowerSeq(s) == [i \in 1..Len(s) |-> Lower(s[i])]

\* does the literal needle occur in hay
Occurs(needle, hay) ==
    \E i \in 1..(Len(hay) + 1) :
        /\ i + Len(needle) - 1 <= Len(hay)
        /\ SubSeq(hay, i, i + Len(needle) - 1) = needle

\* RegExp.prototype.test for a regular expression whose source is a literal and
\* whose flags are among i, m, s, u (no g, no y: lastIndex stays 0)
RegExpTest(pattern, value) ==
    IF "i" \in Range(pattern.flags)
    THEN Occurs(LowerSeq(pattern.source), LowerSeq(value))
    ELSE Occurs(pattern.source, value)

\* picomatch(glob)(value) for a glob without special characters: the whole value
picomatch(glob, value) == value = glob

compilePattern(pattern, value) ==
    IF pattern.kind = "r" THEN RegExpTest(pattern, value) ELSE picomatch(pattern.source, value)

\* variant: every pattern has to match (matchers.every)
compilePatternsEvery(patterns, value) ==
    \A i \in 1..Len(patterns) : compilePattern(patterns[i], value)

compilePatterns(patterns, value) ==
    \E i \in 1..Len(patterns) : compilePattern(patterns[i], value)

----------------------------------------------------------------------------
(* Dimension filter compiler (rolldownPreset.ts:45-103) *)

\* The matcher closure is the include/exclude lists it captured; None is
\* `undefined` (the filter matches everything).
compileGeneralHookFilter(filter) ==
    IF filter = None THEN None
    ELSE LET f == Get(filter)
             include == IF f.shape = "single" THEN Some(<<f.items[1]>>)
                        ELSE IF f.shape = "array" THEN Some(f.items)
                        ELSE IF f.include # None THEN Some(arrayify(Get(f.include)))
                        ELSE None
             exclude == IF f.shape \in {"single", "array"} THEN None
                        ELSE IF f.exclude # None THEN Some(arrayify(Get(f.exclude)))
                        ELSE None
         IN  IF include = None /\ exclude = None THEN None
             ELSE Some([include |-> include, exclude |-> exclude])

\* GeneralMatcher with the exclude list ignored whenever there is an include list
GeneralMatcherIncludeWins(m, value) ==
    IF m.include # None
    THEN compilePatterns(Get(m.include), value)
    ELSE ~compilePatterns(Get(m.exclude), value)

\* calling the closure returned by compileGeneralHookFilter (lines 67-73)
GeneralMatcher(m, value) ==
    IF m.include # None /\ m.exclude # None
    THEN ~compilePatterns(Get(m.exclude), value) /\ compilePatterns(Get(m.include), value)
    ELSE IF m.exclude # None
    THEN ~compilePatterns(Get(m.exclude), value)
    ELSE compilePatterns(Get(m.include), value)

\* The matcher closure is the Set of types it captured.
compileModuleTypeFilter(filter) ==
    IF filter = None THEN None
    ELSE LET f == Get(filter)
             types == IF f.isArray THEN f.items
                      ELSE IF f.include # None THEN Get(f.include) ELSE <<>>
         IN  IF Len(types) = 0 THEN None ELSE Some(Range(types))

ModuleTypeMatcher(typeSet, value) == value \in typeSet

\* The compiled preset filter is the three dimension matchers it captured.
compilePresetFilter(filter) ==
    IF filter = None THEN None
    ELSE LET f == Get(filter)
             matchId == compileGeneralHookFilter(f.id)
             matchModuleType == compileModuleTypeFilter(f.moduleType)
             matchCode == compileGeneralHookFilter(f.code)
         IN  IF matchId = None /\ matchModuleType = None /\ matchCode = None THEN None
             ELSE Some([matchId |-> matchId, matchModuleType |-> matchModuleType,
                        matchCode |-> matchCode])

\* CompiledPresetFilter without the content dimension
CompiledPresetFilterNoCode(c, ctx) ==
    /\ (c.matchId = None \/ GeneralMatcher(Get(c.matchId), ctx.id))
    /\ (c.matchModuleType = None \/ ModuleTypeMatcher(Get(c.matchModuleType), ctx.moduleType))

\* calling the closure returned by compilePresetFilter (lines 99-102)
CompiledPresetFilter(c, ctx) ==
    /\ (c.matchId = None \/ GeneralMatcher(Get(c.matchId), ctx.id))
    /\ (c.matchModuleType = None \/ ModuleTypeMatcher(Get(c.matchModuleType), ctx.moduleType))
    /\ (c.matchCode = None \/ GeneralMatcher(Get(c.matchCode), ctx.code))

----------------------------------------------------------------------------
(* Rule selector (rolldownPreset.ts:109-121, utils.ts:5-17, options.ts:77-197) *)

\* A preset item is [rolldown, preset, filter, configResolvedHook,
\* applyToEnvironmentHook]; `rolldown` is `typeof preset === 'object' &&
\* 'rolldown' in preset`. For a plain babel preset the field preset holds the
\* item itself.
isRolldownBabelPreset(preset) == preset.rolldown

\* variant: a rolldown preset is kept only when it has a filter that accepts
convertToBabelPresetItemStrict(ctx, preset, compiled) ==
    IF ~preset.rolldown THEN Some(preset.preset)
    ELSE IF compiled = None \/ ~CompiledPresetFilter(Get(compiled), ctx) THEN None
    ELSE Some(preset.preset)

\* None, or Some(value) for { value }
convertToBabelPresetItem(ctx, preset, compiled) ==
    IF ~preset.rolldown THEN Some(preset.preset)
    ELSE IF compiled # None /\ ~CompiledPresetFilter(Get(compiled), ctx) THEN None
    ELSE Some(preset.preset)

RECURSIVE filterMapFrom(_, _, _)
filterMapFrom(array, results, index) ==
    IF index > Len(array) THEN <<>>
    ELSE (IF results[index] # None THEN <<Get(results[index])>> ELSE <<>>)
         \o filterMapFrom(array, results, index + 1)

\* variant: results are pushed at the front
filterMapReversed(array, results) ==
    LET r == filterMapFrom(array, results, 1) IN
    [i \in 1..Len(r) |-> r[Len(r) + 1 - i]]

\* utils.ts filterMap, given the predicate's result for every index
filterMap(array, results) == filterMapFrom(array, results, 1)

compilePresetFilters(presets) ==
    [i \in 1..Len(presets) |->
        IF presets[i].rolldown THEN compilePresetFilter(presets[i].filter) ELSE None]

\* /\.(?:[jt]sx?|[cm][jt]s)(?:$|\?)/ and /[/\\]node_modules[/\\]/, written in the
\* model's alphabet: "j" stands for a source-file extension, "n" for a
\* node_modules path segment.
DEFAULT_INCLUDE == Arr(<<Re(<<"j">>, <<>>)>>)
DEFAULT_EXCLUDE == Arr(<<Re(<<"n">>, <<>>)>>)

resolveOptions(options) ==
    [options EXCEPT
        !.include = IF options.include # None THEN options.include ELSE Some(DEFAULT_INCLUDE),
        !.exclude = IF options.exclude # None THEN options.exclude ELSE Some(DEFAULT_EXCLUDE),
        !.sourceMap = IF options.sourceMap # None THEN options.sourceMap ELSE Some(TRUE)]

\* A gate function is the set of arguments it returns true for:
\* configResolvedHook a set of configs, applyToEnvironmentHook a set of
\* environment names.

\* variant: applyToEnvironmentHook is not consulted
filterPresetArrayWithEnvironmentKeepsAll(presets, environment) == presets

\* options.ts:96-105
filterPresetArrayWithEnvironment(presets, environment) ==
    LET Keep(preset) ==
            IF ~preset.rolldown THEN TRUE
            ELSE IF preset.applyToEnvironmentHook = None THEN TRUE
            ELSE environment \in Get(preset.applyToEnvironmentHook)
    IN  SelectSeq(presets, Keep)

\* options.ts:107-122
filterPresetsWithEnvironment(options, environment) ==
    [options EXCEPT
        !.presets =
            IF options.presets # None
            THEN Some(filterPresetArrayWithEnvironment(Get(options.presets), environment))
            ELSE None,
        !.overrides =
            IF options.overrides # None
            THEN Some([i \in 1..Len(Get(options.overrides)) |->
                    LET override == Get(options.overrides)[i] IN
                    IF override.presets # None
                    THEN [override EXCEPT !.presets =
                            Some(filterPresetArrayWithEnvironment(Get(override.presets),
                                                                  environment))]
                    ELSE override])
            ELSE None]

\* variant: configResolvedHook is not consulted
filterPresetArrayKeepsAll(presets, config) == presets

\* options.ts:124-133
filterPresetArray(presets, config) ==
    LET Keep(preset) ==
            IF ~preset.rolldown THEN TRUE
            ELSE IF preset.configResolvedHook = None THEN TRUE
            ELSE config \in Get(preset.configResolvedHook)
    IN  SelectSeq(presets, Keep)

\* variant: the preset lists of override blocks are left as they are
filterPresetsWithConfigResolvedTopLevelOnly(options, config) ==
    [options EXCEPT
        !.presets =
            IF options.presets # None
            THEN Some(filterPresetArray(Get(options.presets), config))
            ELSE None]

\* options.ts:135-148
filterPresetsWithConfigResolved(options, config) ==
    [options EXCEPT
        !.presets =
            IF options.presets # None
            THEN Some(filterPresetArray(Get(options.presets), config))
            ELSE None,
        !.overrides =
            IF options.overrides # None
            THEN Some([i \in 1..Len(Get(options.overrides)) |->
                    LET override == Get(options.overrides)[i] IN
                    IF override.presets # None
                    THEN [override EXCEPT !.presets =
                            Some(filterPresetArray(Get(override.presets), config))]
                    ELSE override])
            ELSE None]

\* The preset lists of the options: list 0 is options.presets, list i is the
\* preset list of override block i (the empty list when there is none).
PresetListAt(options, list) ==
    IF list = 0
    THEN IF options.presets # None THEN Get(options.presets) ELSE <<>>
    ELSE IF Get(options.overrides)[list].presets # None
         THEN Get(Get(options.overrides)[list].presets) ELSE <<>>

PresetListIndexes(options) ==
    {0} \cup (IF options.overrides # None THEN 1..Len(Get(options.overrides)) ELSE {})

\* the positions <<list, index>> of the presets whose gate function `hook`
\* is called with argument: presets.filter visits every preset (options.ts:
\* 100-104, 128-132), options.presets before the override blocks in order
HookPositions(options, hook, argument) ==
    UNION { { <<list, i>> :
                i \in { j \in 1..Len(PresetListAt(options, list)) :
                          /\ PresetListAt(options, list)[j].rolldown
                          /\ PresetListAt(options, list)[j][hook] # None } } :
            list \in PresetListIndexes(options) }

Before(p, q) == p[1] < q[1] \/ (p[1] = q[1] /\ p[2] <= q[2])

\* the position of the first gate function that throws, None when all return
FirstThrow(options, hook, argument) ==
    LET throwing == { p \in HookPositions(options, hook, argument) :
                        argument \in PresetListAt(options, p[1])[p[2]].throws }
    IN  IF throwing = {} THEN None
        ELSE Some(CHOOSE p \in throwing : \A q \in throwing : Before(p, q))

\* the calls made: all of them, or those up to the one that throws
HookCallsOf(options, hook, argument) ==
    LET first == FirstThrow(options, hook, argument)
        made == { p \in HookPositions(options, hook, argument) :
                    first = None \/ Before(p, Get(first)) }
    IN  { <<p[1], PresetListAt(options, p[1])[p[2]].preset, argument>> : p \in made }

\* the calls of preset.rolldown.applyToEnvironmentHook(environment) that
\* filterPresetsWithEnvironment makes (options.ts:102-103), each as
\* <<list, preset, environment>>
applyToEnvironmentHookCallsOf(options, environment) ==
    HookCallsOf(options, "applyToEnvironmentHook", environment)

\* the calls of preset.rolldown.configResolvedHook(config) that
\* filterPresetsWithConfigResolved makes (options.ts:130-131), each as
\* <<list, preset, config>>
configResolvedHookCallsOf(options, config) ==
    HookCallsOf(options, "configResolvedHook", config)

\* filterPresetsWithEnvironment completes abruptly: a gate function threw
filterPresetsWithEnvironmentThrows(options, environment) ==
    FirstThrow(options, "applyToEnvironmentHook", environment) # None

\* filterPresetsWithConfigResolved completes abruptly: a gate function threw
filterPresetsWithConfigResolvedThrows(options, config) ==
    FirstThrow(options, "configResolvedHook", config) # None

\* The converter closure is the options and the compiled filters it captured.
createBabelOptionsConverter(options) ==
    [options |-> options,
     presetFilters |->
        IF options.presets # None THEN Some(compilePresetFilters(Get(options.presets))) ELSE None,
     overridePresetFilters |->
        IF options.overrides # None
        THEN Some([i \in 1..Len(Get(options.overrides)) |->
                    IF Get(options.overrides)[i].presets # None
                    THEN Some(compilePresetFilters(Get(Get(options.overrides)[i].presets)))
                    ELSE None])
        ELSE None]

ConvertPresets(ctx, presets, filters) ==
    filterMap(presets,
              [i \in 1..Len(presets) |-> convertToBabelPresetItem(ctx, presets[i], filters[i])])

\* calling the closure returned by createBabelOptionsConverter (lines 177-196)
Converter(conv, ctx) ==
    LET options == conv.options IN
    [options EXCEPT
        !.presets =
            IF options.presets # None
            THEN Some(ConvertPresets(ctx, Get(options.presets), Get(conv.presetFilters)))
            ELSE None,
        !.overrides =
            IF options.overrides # None
            THEN Some([i \in 1..Len(Get(options.overrides)) |->
                    LET override == Get(options.overrides)[i] IN
                    IF override.presets # None
                    THEN [override EXCEPT !.presets =
                            Some(ConvertPresets(ctx, Get(override.presets),
                                                Get(Get(conv.overridePresetFilters)[i])))]
                    ELSE override])
            ELSE None]

----------------------------------------------------------------------------
(* Filter algebra (filter.ts; options.ts:199-441 in this source tree) *)

\* variant: function entries are left out, the other entries are kept
extractStringOrRegExpSkipsFunctions(test) ==
    IF test = None THEN None
    ELSE LET items == SelectSeq(arrayify(Get(test)), LAMBDA item : item.kind # "f") IN
         IF Len(items) > 0 THEN Some(items) ELSE None

\* test is None or Some([isArray, items]) (babel's ConfigApplicableTest)
extractStringOrRegExp(test) ==
    IF test = None THEN None
    ELSE LET items == arrayify(Get(test)) IN
         IF \E i \in 1..Len(items) : items[i].kind = "f" THEN None
         ELSE IF Len(items) > 0 THEN Some(items) ELSE None

\* variant: only the object shape is read, a pattern or an array gives {}
normalizeGeneralHookFilterObjectsOnly(filter) ==
    IF filter = None THEN [include |-> None, exclude |-> None]
    ELSE LET f == Get(filter) IN
         IF f.shape \in {"single", "array"} THEN [include |-> None, exclude |-> None]
         ELSE [include |-> IF f.include # None THEN Some(arrayify(Get(f.include))) ELSE None,
               exclude |-> IF f.exclude # None THEN Some(arrayify(Get(f.exclude))) ELSE None]

\* { include?, exclude? } of a GeneralHookFilter
normalizeGeneralHookFilter(filter) ==
    IF filter = None THEN [include |-> None, exclude |-> None]
    ELSE LET f == Get(filter) IN
         IF f.shape = "single" THEN [include |-> Some(<<f.items[1]>>), exclude |-> None]
         ELSE IF f.shape = "array" THEN [include |-> Some(f.items), exclude |-> None]
         ELSE [include |-> IF f.include # None THEN Some(arrayify(Get(f.include))) ELSE None,
               exclude |-> IF f.exclude # None THEN Some(arrayify(Get(f.exclude))) ELSE None]

normalizeModuleTypeFilter(filter) ==
    IF filter.isArray THEN filter.items
    ELSE IF filter.include # None THEN Get(filter.include) ELSE <<>>

\* patternKey without the flags of a RegExp
patternKeyNoFlags(pattern) ==
    IF pattern.kind = "s" THEN <<"s", ":">> \o pattern.source
    ELSE <<"r", ":">> \o pattern.source

\* `s:${pattern}` or `r:${pattern.source}:${pattern.flags}`
patternKey(pattern) ==
    IF pattern.kind = "s" THEN <<"s", ":">> \o pattern.source
    ELSE <<"r", ":">> \o pattern.source \o <<":">> \o pattern.flags

\* variant: an empty list of module types counts as an include list
normalizeKeepsEmptyTypes(kind, raw) ==
    IF kind = "moduleType"
    THEN [include |-> Some(normalizeModuleTypeFilter(Get(raw))), exclude |-> None]
    ELSE normalizeGeneralHookFilter(raw)

\* the normalize argument of unionFilters: normalizeGeneralHookFilter for id and
\* code, the arrow function of lines 388-391 for moduleType
normalize(kind, raw) ==
    IF kind = "moduleType"
    THEN LET types == normalizeModuleTypeFilter(Get(raw)) IN
         [include |-> IF Len(types) > 0 THEN Some(types) ELSE None, exclude |-> None]
    ELSE normalizeGeneralHookFilter(raw)

\* the keyFn argument of unionFilters: patternKey for id and code, (s) => s for
\* moduleType
keyFn(kind, item) == IF kind = "moduleType" THEN item ELSE patternKey(item)

\* variant: the first array alone decides
intersectArraysFirstOnly(arrays, kind) ==
    IF Len(arrays) = 0 THEN <<>>
    ELSE IF arrays[1] = None THEN <<>>
    ELSE Get(arrays[1])

intersectArrays(arrays, kind) ==
    IF Len(arrays) = 0 THEN <<>>
    ELSE IF \E i \in 1..Len(arrays) : arrays[i] = None THEN <<>>
    ELSE LET first == Get(arrays[1])
             key(i) == keyFn(kind, first[i])
             \* new Map(entries): a key stays where it was first inserted and
             \* holds the value inserted last
             firstOf(i) == \A j \in 1..(i - 1) : key(j) # key(i)
             lastOf(i) == CHOOSE j \in i..Len(first) :
                            /\ key(j) = key(i)
                            /\ \A k \in (j + 1)..Len(first) : key(k) # key(i)
             inAll(i) == \A a \in 2..Len(arrays) :
                            \E k \in 1..Len(Get(arrays[a])) :
                                keyFn(kind, Get(arrays[a])[k]) = key(i)
             keep(i) == firstOf(i) /\ inAll(i)
             kept == SelectSeq([i \in 1..Len(first) |-> i], keep)
         IN  [n \in 1..Len(kept) |-> first[lastOf(kept[n])]]

\* variant: the second array replaces the first
concatArraysSecondWins(a, b) ==
    IF b = None THEN a ELSE b

concatArrays(a, b) ==
    IF a = None THEN b
    ELSE IF b = None THEN a
    ELSE Some(Get(a) \o Get(b))

\* the state of the loop of unionFilters before the first iteration
UnionStart == [matchAll |-> FALSE, includes |-> <<>>, excludeArrays |-> <<>>]

\* UnionIteration with matchAll recomputed from the current preset alone
UnionIterationForgets(st, raw, kind) ==
    IF raw = None
    THEN [st EXCEPT !.matchAll = TRUE, !.excludeArrays = Append(@, None)]
    ELSE LET n == normalize(kind, raw) IN
         [matchAll |-> n.include = None,
          includes |-> IF n.include # None
                       THEN st.includes \o Get(n.include) ELSE st.includes,
          excludeArrays |-> Append(st.excludeArrays, n.exclude)]

\* one iteration of the loop of unionFilters (lines 315-330)
UnionIteration(st, raw, kind) ==
    IF raw = None
    THEN [st EXCEPT !.matchAll = TRUE, !.excludeArrays = Append(@, None)]
    ELSE LET n == normalize(kind, raw) IN
         [matchAll |-> st.matchAll \/ n.include = None,
          includes |-> IF ~st.matchAll /\ n.include # None
                       THEN st.includes \o Get(n.include) ELSE st.includes,
          excludeArrays |-> Append(st.excludeArrays, n.exclude)]

\* variant: only the includes of the first preset are returned
UnionReturnFirstIncludes(st, kind) ==
    [includes |-> IF st.matchAll THEN None
                  ELSE IF Len(st.includes) > 0 THEN Some(<<st.includes[1]>>) ELSE None,
     excludes |-> intersectArrays(st.excludeArrays, kind)]

\* the return statement of unionFilters (lines 332-335)
UnionReturn(st, kind) ==
    [includes |-> IF st.matchAll THEN None
                  ELSE IF Len(st.includes) > 0 THEN Some(st.includes) ELSE None,
     excludes |-> intersectArrays(st.excludeArrays, kind)]

RECURSIVE UnionLoop(_, _, _, _)
UnionLoop(st, raws, kind, i) ==
    IF i > Len(raws) THEN st
    ELSE UnionLoop(UnionIteration(st, raws[i], kind), raws, kind, i + 1)

unionFilters(raws, kind) == UnionReturn(UnionLoop(UnionStart, raws, kind, 1), kind)

\* A HookFilter is [id, moduleType, code], each None when the property is absent
baseFilterOf(userInclude, userExclude) ==
    [id |-> Some([include |-> userInclude, exclude |-> userExclude]),
     moduleType |-> None, code |-> None]

\* variant: explicit plugins are not looked at
ReturnsBaseFilterIgnoringPlugins(options) ==
    \/ options.presets = None
    \/ Len(Get(options.presets)) = 0
    \/ \E i \in 1..Len(Get(options.presets)) :
            \/ ~isRolldownBabelPreset(Get(options.presets)[i])
            \/ Get(options.presets)[i].filter = None

\* lines 358-374: only the base filter is used
ReturnsBaseFilter(options) ==
    \/ options.plugins # None /\ Len(Get(options.plugins)) > 0
    \/ options.presets = None
    \/ Len(Get(options.presets)) = 0
    \/ \E i \in 1..Len(Get(options.presets)) :
            \/ ~isRolldownBabelPreset(Get(options.presets)[i])
            \/ Get(options.presets)[i].filter = None

\* variant: the presets' include union comes first
finalFilterIdIncludePresetsFirst(userInclude, idUnion) ==
    IF idUnion.includes # None THEN idUnion.includes ELSE userInclude

\* line 405
finalFilterIdInclude(userInclude, idUnion) ==
    IF userInclude # None THEN userInclude ELSE idUnion.includes

\* lines 406-409
finalFilterIdExclude(userExclude, idUnion) ==
    concatArrays(userExclude,
                 IF Len(idUnion.excludes) > 0 THEN Some(idUnion.excludes) ELSE None)

\* variant: the content entry is emitted for the shared excludes alone as well
finalFilterCodeKeepsExcludes(codeUnion) ==
    LET finalFilterCodeExclude ==
            IF Len(codeUnion.excludes) > 0 THEN Some(codeUnion.excludes) ELSE None
    IN  IF codeUnion.includes # None \/ finalFilterCodeExclude # None
        THEN IF finalFilterCodeExclude # None
             THEN Some([isArray |-> FALSE,
                        include |-> IF codeUnion.includes # None
                                    THEN Get(codeUnion.includes) ELSE <<>>,
                        exclude |-> finalFilterCodeExclude])
             ELSE Some([isArray |-> TRUE, include |-> Get(codeUnion.includes),
                        exclude |-> None])
        ELSE None

\* lines 420-427: finalFilter.code, None when the property is not set
finalFilterCode(codeUnion) ==
    LET finalFilterCodeExclude ==
            IF Len(codeUnion.excludes) > 0 THEN Some(codeUnion.excludes) ELSE None
    IN  IF codeUnion.includes # None
        THEN IF finalFilterCodeExclude # None
             THEN Some([isArray |-> FALSE, include |-> Get(codeUnion.includes),
                        exclude |-> finalFilterCodeExclude])
             ELSE Some([isArray |-> TRUE, include |-> Get(codeUnion.includes),
                        exclude |-> None])
        ELSE None

calculateTransformFilter(options) ==
    LET userInclude == extractStringOrRegExp(options.include)
        userExclude == extractStringOrRegExp(options.exclude)
        baseFilter == baseFilterOf(userInclude, userExclude)
    IN
    IF ReturnsBaseFilter(options) THEN baseFilter
    ELSE
    LET presets == Get(options.presets)
        filters == [i \in 1..Len(presets) |-> Get(presets[i].filter)]
        idUnion == unionFilters([i \in 1..Len(filters) |-> filters[i].id], "id")
        moduleTypeUnion ==
            unionFilters([i \in 1..Len(filters) |-> filters[i].moduleType], "moduleType")
        codeUnion == unionFilters([i \in 1..Len(filters) |-> filters[i].code], "code")
        idInclude == finalFilterIdInclude(userInclude, idUnion)
        idExclude == finalFilterIdExclude(userExclude, idUnion)
    IN
    [id |-> IF idInclude # None \/ idExclude # None
            THEN Some([include |-> idInclude, exclude |-> idExclude])
            ELSE None,
     moduleType |-> IF moduleTypeUnion.includes # None THEN moduleTypeUnion.includes ELSE None,
     code |-> finalFilterCode(codeUnion)]

calculatePluginFilters(options) == [transformFilter |-> calculateTransformFilter(options)]

----------------------------------------------------------------------------
(* Bounded inputs *)

\* longest list of presets in the plugin options
MaxPresets == 2
\* longest rawFilters list handed to unionFilters
MaxFilters == 3

RECURSIVE SeqsUpTo(_, _)
\* the sequences over S of length 0..n
SeqsUpTo(S, n) ==
    IF n = 0 THEN {<<>>}
    ELSE LET shorter == SeqsUpTo(S, n - 1) IN
         shorter \cup {Append(q, x) : q \in {r \in shorter : Len(r) = n - 1}, x \in S}

RA == Re(<<"a">>, <<>>)
RAi == Re(<<"a">>, <<"i">>)
RB == Re(<<"b">>, <<>>)
SA == Str(<<"a">>)
SB == Str(<<"b">>)

\* GeneralHookFilter values: a pattern, an array, or { include?, exclude? }
Single(p) == Some([shape |-> "single", items |-> <<p>>, include |-> None, exclude |-> None])
Array(ps) == Some([shape |-> "array", items |-> ps, include |-> None, exclude |-> None])
Obj(inc, exc) == Some([shape |-> "object", items |-> <<>>, include |-> inc, exclude |-> exc])
\* ModuleTypeFilter values: an array or { include? }
MtArray(types) == Some([isArray |-> TRUE, items |-> types, include |-> None])
MtObj(inc) == Some([isArray |-> FALSE, items |-> <<>>, include |-> inc])

Filter(id, moduleType, code) == Some([id |-> id, moduleType |-> moduleType, code |-> code])

PlainPreset ==
    [rolldown |-> FALSE, preset |-> 0, filter |-> None,
     configResolvedHook |-> None, applyToEnvironmentHook |-> None, throws |-> {}]
RolldownPreset(filter) ==
    [rolldown |-> TRUE, preset |-> 0, filter |-> filter,
     configResolvedHook |-> None, applyToEnvironmentHook |-> None, throws |-> {}]

\* the filters a preset of the model may carry
PresetShapes ==
    { PlainPreset,
      RolldownPreset(None),
      RolldownPreset(Filter(None, None, None)),
      RolldownPreset(Filter(Single(RA), None, None)),
      RolldownPreset(Filter(Array(<<SA, RB>>), None, None)),
      RolldownPreset(Filter(Obj(Some(Arr(<<RB>>)), Some(Arr(<<RA, RAi>>))), None, None)),
      RolldownPreset(Filter(Obj(None, Some(Arr(<<RAi, RA>>))), None, None)),
      RolldownPreset(Filter(Array(<<>>), None, Single(RA))),
      RolldownPreset(Filter(None, MtObj(Some(<<"tsx">>)), None)),
      RolldownPreset(Filter(None, MtArray(<<>>), Single(RA))),
      RolldownPreset(Filter(None, None, Obj(Some(One(RB)), Some(One(RA))))),
      RolldownPreset(Filter(Single(RA), MtArray(<<"js">>), Obj(None, Some(Arr(<<RA>>))))) }

\* the preset value of each item is its position in the list, so that the
\* items of one list are told apart
Numbered(presets) == [i \in 1..Len(presets) |-> [presets[i] EXCEPT !.preset = i]]

PresetLists == {Numbered(q) : q \in SeqsUpTo(PresetShapes, MaxPresets)}

Options(include, exclude, plugins, presets, overrides) ==
    [include |-> include, exclude |-> exclude, sourceMap |-> None,
     plugins |-> plugins, presets |-> presets, overrides |-> overrides]

Override(plugins, presets) == [plugins |-> plugins, presets |-> presets]

\* many preset lists under a few user-level settings
PresetConfigs ==
    { Options(inc, None, None, Some(ps), None) :
        inc \in {None, Some(Arr(<<RB>>)), Some(Arr(<<Fn, RB>>))},
        ps \in PresetLists }

FewPresetLists ==
    { None, Some(<<>>),
      Some(Numbered(<<PlainPreset>>)),
      Some(Numbered(<<RolldownPreset(Filter(Obj(Some(Arr(<<RB>>)), Some(Arr(<<RA, RAi>>))),
                                            None, None))>>)),
      Some(Numbered(<<RolldownPreset(Filter(Obj(None, Some(Arr(<<RAi, RA>>))), None, None)),
                      RolldownPreset(Filter(Single(RA), MtArray(<<"js">>),
                                            Obj(None, Some(Arr(<<RA>>)))))>>)) }

\* many user-level settings over a few preset lists
UserConfigs ==
    { Options(inc, exc, plugins, ps, None) :
        inc \in {None, Some(One(RB)), Some(Arr(<<Fn, RB>>)), Some(Arr(<<>>))},
        exc \in {None, Some(One(RA)), Some(Arr(<<RA, Fn>>)), Some(Arr(<<RB, RAi>>))},
        plugins \in {None, Some(<<>>), Some(<<"plugin">>)},
        ps \in FewPresetLists }

OverrideBlocks ==
    { Override(Some(<<"plugin">>), None),
      Override(None, Some(<<>>)),
      Override(None, Some(Numbered(<<PlainPreset,
                                     RolldownPreset(Filter(Single(RA), None, None)),
                                     RolldownPreset(Filter(None, None, Single(RB)))>>))),
      Override(None, Some(Numbered(<<RolldownPreset(Filter(None, MtArray(<<"tsx">>), None)),
                                     RolldownPreset(None)>>))) }

\* override blocks under a few top-level preset lists
OverrideConfigs ==
    { Options(None, None, None, ps, Some(ov)) :
        ps \in {None, Some(<<>>),
                Some(Numbered(<<RolldownPreset(Filter(Single(RB), None, None))>>)),
                Some(Numbered(<<RolldownPreset(Filter(None, None, Single(RB)))>>))},
        ov \in {<<>>} \cup {<<b>> : b \in OverrideBlocks}
                  \cup {<<b, c>> : b \in OverrideBlocks, c \in OverrideBlocks} }

Configs == PresetConfigs \cup UserConfigs \cup OverrideConfigs

Ids == {<<"a", "b", "j">>, <<"b", "j">>, <<"A", "j">>, <<"a">>, <<"n", "j">>}
ModuleTypes == {"js", "tsx"}
Codes == {<<"a">>, <<"b">>, <<"a", "b">>}
Contexts == [id : Ids, moduleType : ModuleTypes, code : Codes]

\* raw id / code filters of one preset handed to unionFilters
GeneralFilters ==
    { None,
      Single(RA),
      Array(<<RB, SA>>),
      Array(<<>>),
      Obj(Some(Arr(<<RA>>)), Some(Arr(<<RA, RB>>))),
      Obj(Some(One(RB)), Some(Arr(<<RB, SA>>))),
      Obj(None, Some(Arr(<<RAi, RB, RB>>))),
      Obj(None, Some(One(SA))),
      Obj(Some(Arr(<<SB, RA>>)), Some(Arr(<<>>))),
      Obj(None, None) }

\* raw moduleType filters of one preset handed to unionFilters
ModuleTypeFilters ==
    { None,
      MtArray(<<"tsx", "jsx">>),
      MtArray(<<"tsx">>),
      MtArray(<<>>),
      MtObj(Some(<<"js">>)),
      MtObj(None) }

CodeFilters ==
    { None,
      Single(RA),
      Obj(Some(One(RB)), Some(One(RA))),
      Obj(None, Some(Arr(<<RA>>))),
      Obj(Some(Arr(<<>>)), None) }

\* the filters handed to compilePresetFilter
PresetFilters ==
    {None} \cup { Filter(id, mt, code) :
                    id \in GeneralFilters, mt \in ModuleTypeFilters, code \in CodeFilters }

\* the key of envState for `this.environment?.name` when there is no environment
UndefinedEnv == "undefined"
\* environment.name of the environments of a Vite host
Environments == {"client", "ssr"}
EnvKeys == {UndefinedEnv} \cup Environments
\* the resolved configs of a Vite host, told apart by config.command
ResolvedConfigs == {"serve", "build"}

\* longest list of presets with gate functions
MaxGated == 2

\* a rolldown preset with gate functions
GatedPreset(filter, configResolvedHook, applyToEnvironmentHook) ==
    [rolldown |-> TRUE, preset |-> 0, filter |-> filter,
     configResolvedHook |-> configResolvedHook,
     applyToEnvironmentHook |-> applyToEnvironmentHook, throws |-> {}]

\* a preset whose gate functions throw when called with an argument in throws
ThrowingPreset(configResolvedHook, applyToEnvironmentHook, throws) ==
    [rolldown |-> TRUE, preset |-> 0, filter |-> None,
     configResolvedHook |-> configResolvedHook,
     applyToEnvironmentHook |-> applyToEnvironmentHook, throws |-> throws]

ThrowOnServe == ThrowingPreset(Some({"build"}), None, {"serve"})
ThrowOnSsr == ThrowingPreset(None, Some({"client"}), {"ssr"})

GateClientOnly == GatedPreset(None, None, Some({"client"}))
GateBuildOnly == GatedPreset(Filter(Single(RA), None, None), Some({"build"}), None)
GateBuildSsr == GatedPreset(Filter(None, None, Single(RB)), Some({"build"}), Some({"ssr"}))
GateNeverResolved == GatedPreset(None, Some({}), Some({"client", "ssr"}))
GateNoEnvironment ==
    GatedPreset(Filter(None, MtArray(<<"tsx">>), None), Some({"serve", "build"}), Some({}))

GatedShapes ==
    {PlainPreset, GateClientOnly, GateBuildOnly, GateBuildSsr, GateNeverResolved,
     GateNoEnvironment}

GatedLists == {Numbered(q) : q \in SeqsUpTo(GatedShapes, MaxGated)}

GatedOverrides ==
    { None,
      Some(<<>>),
      Some(<<Override(Some(<<"plugin">>), None)>>),
      Some(<<Override(None, Some(Numbered(<<GateClientOnly, GateNeverResolved,
                                             GateBuildSsr>>)))>>),
      Some(<<Override(None, Some(Numbered(<<GateNoEnvironment>>))),
             Override(None, Some(<<>>))>>) }

\* configurations with a gate function that throws
ThrowConfigs ==
    { Options(None, None, None, Some(Numbered(<<GateClientOnly, ThrowOnServe>>)), None),
      Options(None, None, None, Some(Numbered(<<ThrowOnSsr, GateBuildOnly>>)), None),
      Options(None, None, Some(<<"plugin">>), Some(Numbered(<<GateBuildOnly>>)),
              Some(<<Override(None, Some(Numbered(<<PlainPreset, ThrowOnServe>>))),
                     Override(None, Some(Numbered(<<ThrowOnSsr>>)))>>)) }

\* a rule whose content include list is empty next to a rule of the client
\* environment alone
EmptyIncludeConfigs ==
    { Options(None, None, None,
              Some(Numbered(<<GatedPreset(Filter(Single(RA), None, Array(<<>>)), None, None),
                              GatedPreset(Filter(None, None, Single(RB)), None,
                                          Some({"client"}))>>)),
              None) }

\* configurations whose presets carry gate functions
GateConfigs ==
    { Options(None, None, None, Some(ps), None) : ps \in GatedLists }
    \cup
    { Options(None, None, plugins, ps, ov) :
        plugins \in {None, Some(<<"plugin">>)},
        ps \in {None, Some(<<>>), Some(Numbered(<<GateClientOnly>>)),
                Some(Numbered(<<GateBuildSsr, GateNeverResolved>>))},
        ov \in GatedOverrides }
    \cup ThrowConfigs
    \cup EmptyIncludeConfigs

----------------------------------------------------------------------------
(* The plugin (index.ts:14-115) under a Vite host or under plain Rolldown *)

PluginInit ==
    /\ viteVersion \in BOOLEAN
    /\ rawOptions \in (IF viteVersion THEN GateConfigs ELSE Configs \cup GateConfigs)
    /\ configFilteredOptions = None
    /\ resolvedConfig = None
    /\ applied = [e \in Environments |-> None]
    /\ configResolvedHookCalls = {}
    /\ applyToEnvironmentHookCalls = {}
    /\ envState = [k \in EnvKeys |-> None]
    /\ transformFilter = None
    /\ lastEnv = UndefinedEnv
    /\ lastCtx = None
    /\ lastBabelOptions = None
    /\ thrown = None
    /\ outputOptionsCalled = FALSE

\* variant: the filter is computed from the options as configured
ConfigResolvedRawFilter(config) ==
    /\ viteVersion
    /\ resolvedConfig = None
    /\ thrown = None
    /\ configResolvedHookCalls' =
            configResolvedHookCalls \cup configResolvedHookCallsOf(rawOptions, config)
    /\ IF filterPresetsWithConfigResolvedThrows(rawOptions, config)
       THEN /\ thrown' = Some([hook |-> "configResolved", argument |-> config])
            /\ UNCHANGED <<resolvedConfig, configFilteredOptions, transformFilter>>
       ELSE /\ resolvedConfig' = Some(config)
            /\ configFilteredOptions' =
                    Some(filterPresetsWithConfigResolved(rawOptions, config))
            /\ transformFilter' =
                    Some(calculatePluginFilters(resolveOptions(rawOptions)).transformFilter)
            /\ UNCHANGED thrown
    /\ UNCHANGED <<rawOptions, viteVersion, outputOptionsCalled,
                   applied, applyToEnvironmentHookCalls, envState,
                   lastEnv, lastCtx, lastBabelOptions>>

\* index.ts:22-26; Vite calls the hook once, when the config is resolved. A
\* gate function that throws ends the handler at line 23, before any assignment.
ConfigResolved(config) ==
    /\ viteVersion
    /\ resolvedConfig = None
    /\ thrown = None
    /\ configResolvedHookCalls' =
            configResolvedHookCalls \cup configResolvedHookCallsOf(rawOptions, config)
    /\ IF filterPresetsWithConfigResolvedThrows(rawOptions, config)
       THEN /\ thrown' = Some([hook |-> "configResolved", argument |-> config])
            /\ UNCHANGED <<resolvedConfig, configFilteredOptions, transformFilter>>
       ELSE /\ resolvedConfig' = Some(config)
            /\ configFilteredOptions' =
                    Some(filterPresetsWithConfigResolved(rawOptions, config))
            /\ transformFilter' =
                    LET resolved == resolveOptions(filterPresetsWithConfigResolved(rawOptions, config))
                    IN  Some(calculatePluginFilters(resolved).transformFilter)
            /\ UNCHANGED thrown
    /\ UNCHANGED <<rawOptions, viteVersion, outputOptionsCalled,
                   applied, applyToEnvironmentHookCalls, envState,
                   lastEnv, lastCtx, lastBabelOptions>>

\* variant: override blocks are not looked at
NothingToApplyAtTopLevel(envOptions) ==
    /\ ~(envOptions.presets # None /\ Len(Get(envOptions.presets)) > 0)
    /\ ~(envOptions.plugins # None /\ Len(Get(envOptions.plugins)) > 0)

\* index.ts:29-33: nothing is left to apply in the environment
NothingToApply(envOptions) ==
    /\ ~(envOptions.presets # None /\ Len(Get(envOptions.presets)) > 0)
    /\ ~(envOptions.plugins # None /\ Len(Get(envOptions.plugins)) > 0)
    /\ ~(/\ envOptions.overrides # None
         /\ \E i \in 1..Len(Get(envOptions.overrides)) :
              LET o == Get(envOptions.overrides)[i] IN
              \/ o.presets # None /\ Len(Get(o.presets)) > 0
              \/ o.plugins # None /\ Len(Get(o.plugins)) > 0)

\* variant: a gate function that throws is caught and counts as returning
\* false, so the handler goes on and installs the converter
ApplyToEnvironmentCatches(environment) ==
    /\ viteVersion
    /\ configFilteredOptions # None
    /\ applied[environment] = None
    /\ thrown = None
    /\ applyToEnvironmentHookCalls' =
            applyToEnvironmentHookCalls
                \cup applyToEnvironmentHookCallsOf(Get(configFilteredOptions), environment)
    /\ LET envOptions ==
                filterPresetsWithEnvironment(Get(configFilteredOptions), environment)
           skipped == NothingToApply(envOptions)
       IN  /\ applied' = [applied EXCEPT ![environment] =
                            Some([envOptions |-> envOptions, returned |-> ~skipped])]
           /\ envState' =
                    IF skipped THEN envState
                    ELSE [envState EXCEPT ![environment] =
                            Some(createBabelOptionsConverter(resolveOptions(envOptions)))]
           /\ UNCHANGED thrown
    /\ UNCHANGED <<rawOptions, viteVersion, outputOptionsCalled,
                   configFilteredOptions, resolvedConfig,
                   configResolvedHookCalls, transformFilter, lastEnv, lastCtx,
                   lastBabelOptions>>

\* variant: the environment gate reduces the lists of its input in place
ApplyToEnvironmentInPlace(environment) ==
    /\ viteVersion
    /\ configFilteredOptions # None
    /\ applied[environment] = None
    /\ thrown = None
    /\ applyToEnvironmentHookCalls' =
            applyToEnvironmentHookCalls
                \cup applyToEnvironmentHookCallsOf(Get(configFilteredOptions), environment)
    /\ IF filterPresetsWithEnvironmentThrows(Get(configFilteredOptions), environment)
       THEN /\ thrown' = Some([hook |-> "applyToEnvironment", argument |-> environment])
            /\ UNCHANGED <<applied, envState, configFilteredOptions>>
       ELSE LET envOptions ==
                    filterPresetsWithEnvironment(Get(configFilteredOptions), environment)
                skipped == NothingToApply(envOptions)
            IN  /\ applied' = [applied EXCEPT ![environment] =
                                Some([envOptions |-> envOptions, returned |-> ~skipped])]
                /\ envState' =
                        IF skipped THEN envState
                        ELSE [envState EXCEPT ![environment] =
                                Some(createBabelOptionsConverter(resolveOptions(envOptions)))]
                /\ configFilteredOptions' = Some(envOptions)
                /\ UNCHANGED thrown
    /\ UNCHANGED <<rawOptions, viteVersion, outputOptionsCalled,
                   resolvedConfig,
                   configResolvedHookCalls, transformFilter, lastEnv, lastCtx,
                   lastBabelOptions>>

\* index.ts:27-39; Vite calls the hook once per environment, after
\* configResolved. A gate function that throws ends the handler at line 28.
ApplyToEnvironment(environment) ==
    /\ viteVersion
    /\ configFilteredOptions # None
    /\ applied[environment] = None
    /\ thrown = None
    /\ applyToEnvironmentHookCalls' =
            applyToEnvironmentHookCalls
                \cup applyToEnvironmentHookCallsOf(Get(configFilteredOptions), environment)
    /\ IF filterPresetsWithEnvironmentThrows(Get(configFilteredOptions), environment)
       THEN /\ thrown' = Some([hook |-> "applyToEnvironment", argument |-> environment])
            /\ UNCHANGED <<applied, envState>>
       ELSE LET envOptions ==
                    filterPresetsWithEnvironment(Get(configFilteredOptions), environment)
                skipped == NothingToApply(envOptions)
            IN  /\ applied' = [applied EXCEPT ![environment] =
                                Some([envOptions |-> envOptions, returned |-> ~skipped])]
                /\ envState' =
                        IF skipped THEN envState
                        ELSE [envState EXCEPT ![environment] =
                                Some(createBabelOptionsConverter(resolveOptions(envOptions)))]
                /\ UNCHANGED thrown
    /\ UNCHANGED <<rawOptions, viteVersion, outputOptionsCalled,
                   configFilteredOptions, resolvedConfig,
                   configResolvedHookCalls, transformFilter, lastEnv, lastCtx,
                   lastBabelOptions>>

\* variant: the phase gate is applied for a build
OutputOptionsGated ==
    /\ outputOptionsCalled' = TRUE
    /\ IF viteVersion
       THEN UNCHANGED <<envState, transformFilter>>
       ELSE LET resolved == resolveOptions(filterPresetsWithConfigResolved(rawOptions, "build")) IN
            /\ envState' = [envState EXCEPT
                                ![UndefinedEnv] = Some(createBabelOptionsConverter(resolved))]
            /\ transformFilter' = Some(calculatePluginFilters(resolved).transformFilter)
    /\ UNCHANGED <<rawOptions, viteVersion, thrown, configFilteredOptions, resolvedConfig,
                   applied, configResolvedHookCalls, applyToEnvironmentHookCalls, lastEnv,
                   lastCtx, lastBabelOptions>>

\* variant: the Vite version of the host is not looked at
OutputOptionsUnderVite ==
    /\ outputOptionsCalled' = TRUE
    /\ IF FALSE
       THEN UNCHANGED <<envState, transformFilter>>
       ELSE LET resolved == resolveOptions(rawOptions) IN
            /\ envState' = [envState EXCEPT
                                ![UndefinedEnv] = Some(createBabelOptionsConverter(resolved))]
            /\ transformFilter' = Some(calculatePluginFilters(resolved).transformFilter)
    /\ UNCHANGED <<rawOptions, viteVersion, thrown, configFilteredOptions, resolvedConfig,
                   applied, configResolvedHookCalls, applyToEnvironmentHookCalls, lastEnv,
                   lastCtx, lastBabelOptions>>

\* index.ts:40-45; `if (this.meta.viteVersion) return` leaves the handler at once
OutputOptions ==
    /\ outputOptionsCalled' = TRUE
    /\ IF viteVersion
       THEN UNCHANGED <<envState, transformFilter>>
       ELSE LET resolved == resolveOptions(rawOptions) IN
            /\ envState' = [envState EXCEPT
                                ![UndefinedEnv] = Some(createBabelOptionsConverter(resolved))]
            /\ transformFilter' = Some(calculatePluginFilters(resolved).transformFilter)
    /\ UNCHANGED <<rawOptions, viteVersion, thrown, configFilteredOptions, resolvedConfig,
                   applied, configResolvedHookCalls, applyToEnvironmentHookCalls, lastEnv,
                   lastCtx, lastBabelOptions>>

\* this.environment?.name: an environment of the Vite host, undefined under
\* plain Rolldown
EnvironmentNames == IF viteVersion THEN Environments ELSE {UndefinedEnv}

\* variant: the handler takes the converter of any environment that has one
TransformWithAnyConverter(environment, ctx) ==
    /\ environment \in EnvironmentNames
    /\ envState[environment] # None
    /\ \E other \in EnvKeys :
        /\ envState[other] # None
        /\ lastBabelOptions' = Some(Converter(Get(envState[other]), ctx))
    /\ lastEnv' = environment
    /\ lastCtx' = Some(ctx)
    /\ UNCHANGED <<rawOptions, viteVersion, outputOptionsCalled, thrown,
                   configFilteredOptions, resolvedConfig, applied,
                   configResolvedHookCalls, applyToEnvironmentHookCalls, envState,
                   transformFilter>>

\* index.ts:48-56: the handler up to the call of babel; opts.moduleType ?? 'js'
\* is already applied in ctx.moduleType
Transform(environment, ctx) ==
    LET convertToBabelOptions == envState[environment] IN
    /\ environment \in EnvironmentNames
    /\ convertToBabelOptions # None
    /\ lastEnv' = environment
    /\ lastCtx' = Some(ctx)
    /\ lastBabelOptions' = Some(Converter(Get(convertToBabelOptions), ctx))
    /\ UNCHANGED <<rawOptions, viteVersion, outputOptionsCalled, thrown,
                   configFilteredOptions, resolvedConfig, applied,
                   configResolvedHookCalls, applyToEnvironmentHookCalls, envState,
                   transformFilter>>

\* index.ts:49-50: no converter for the environment, the handler returns
TransformSkipped(environment) ==
    /\ environment \in EnvironmentNames
    /\ envState[environment] = None
    /\ UNCHANGED pluginVars

\* the files the host transforms: all contexts under plain Rolldown, in each
\* environment of Vite those that the gated rules' filters tell apart
ViteContexts ==
    {ctx \in Contexts :
        /\ ctx.id \in {<<"a", "b", "j">>, <<"b", "j">>, <<"n", "j">>}
        /\ ctx.code \in {<<"a">>, <<"b">>}}
TransformContexts == IF viteVersion THEN ViteContexts ELSE Contexts

PluginIdle ==
    /\ rawOptions = Options(None, None, None, None, None)
    /\ viteVersion = FALSE
    /\ configFilteredOptions = None
    /\ resolvedConfig = None
    /\ applied = [e \in Environments |-> None]
    /\ configResolvedHookCalls = {}
    /\ applyToEnvironmentHookCalls = {}
    /\ envState = [k \in EnvKeys |-> None]
    /\ transformFilter = None
    /\ lastEnv = UndefinedEnv
    /\ lastCtx = None
    /\ lastBabelOptions = None
    /\ thrown = None
    /\ outputOptionsCalled = FALSE

UnionIdle ==
    /\ rawFilters = <<>> /\ dimKind = "id" /\ loopIndex = 0 /\ matchAll = FALSE
    /\ includes = <<>> /\ excludeArrays = <<>> /\ unionResult = None

CompileIdle ==
    /\ presetFilter = None /\ compiledFilter = None /\ filterCtx = None
    /\ filterVerdict = FALSE

MatcherIdle ==
    /\ matcherFilter = None /\ includeLastIndex = <<>> /\ excludeLastIndex = <<>>
    /\ matcherValue = None /\ matcherVerdict = FALSE

Init == PluginInit /\ UnionIdle /\ CompileIdle /\ MatcherIdle

Next ==
    \/ \E config \in ResolvedConfigs :
            ConfigResolved(config) /\ UNCHANGED <<unionVars, compileVars, matcherVars>>
    \/ \E environment \in Environments :
            ApplyToEnvironment(environment) /\ UNCHANGED <<unionVars, compileVars, matcherVars>>
    \/ OutputOptions /\ UNCHANGED <<unionVars, compileVars, matcherVars>>
    \/ \E environment \in EnvKeys, ctx \in TransformContexts :
            Transform(environment, ctx) /\ UNCHANGED <<unionVars, compileVars, matcherVars>>
    \/ \E environment \in EnvKeys :
            TransformSkipped(environment) /\ UNCHANGED <<unionVars, compileVars, matcherVars>>

Spec == Init /\ [][Next]_vars

----------------------------------------------------------------------------
(* The plugin under a Vite host that resolves its configuration again (a     *)
(* restart with the same plugin object): configResolved runs again, then     *)
(* applyToEnvironment for the environments of the new configuration.         *)

\* index.ts:22-26 called again with another configuration; the host has new
\* environments, the plugin's envState is the same Map
ConfigResolvedAgain(config) ==
    /\ viteVersion
    /\ resolvedConfig # None
    /\ Get(resolvedConfig) # config
    /\ thrown = None
    /\ configResolvedHookCalls' =
            configResolvedHookCalls \cup configResolvedHookCallsOf(rawOptions, config)
    /\ IF filterPresetsWithConfigResolvedThrows(rawOptions, config)
       THEN /\ thrown' = Some([hook |-> "configResolved", argument |-> config])
            /\ UNCHANGED <<resolvedConfig, configFilteredOptions, transformFilter, applied>>
       ELSE /\ resolvedConfig' = Some(config)
            /\ configFilteredOptions' =
                    Some(filterPresetsWithConfigResolved(rawOptions, config))
            /\ transformFilter' =
                    LET resolved ==
                            resolveOptions(filterPresetsWithConfigResolved(rawOptions, config))
                    IN  Some(calculatePluginFilters(resolved).transformFilter)
            /\ applied' = [e \in Environments |-> None]
            /\ UNCHANGED thrown
    /\ UNCHANGED <<rawOptions, viteVersion, outputOptionsCalled,
                   applyToEnvironmentHookCalls, envState,
                   lastEnv, lastCtx, lastBabelOptions>>

RebuildContexts ==
    {[id |-> <<"a", "b", "j">>, moduleType |-> "js", code |-> <<"a">>],
     [id |-> <<"n", "j">>, moduleType |-> "js", code |-> <<"b">>]}

RebuildInit ==
    /\ viteVersion = TRUE
    /\ rawOptions \in GateConfigs
    /\ configFilteredOptions = None
    /\ resolvedConfig = None
    /\ applied = [e \in Environments |-> None]
    /\ configResolvedHookCalls = {}
    /\ applyToEnvironmentHookCalls = {}
    /\ envState = [k \in EnvKeys |-> None]
    /\ transformFilter = None
    /\ lastEnv = UndefinedEnv
    /\ lastCtx = None
    /\ lastBabelOptions = None
    /\ thrown = None
    /\ outputOptionsCalled = FALSE

RebuildNext ==
    \/ \E config \in ResolvedConfigs :
            ConfigResolved(config) /\ UNCHANGED <<unionVars, compileVars, matcherVars>>
    \/ \E config \in ResolvedConfigs :
            ConfigResolvedAgain(config) /\ UNCHANGED <<unionVars, compileVars, matcherVars>>
    \/ \E environment \in Environments :
            ApplyToEnvironment(environment) /\ UNCHANGED <<unionVars, compileVars, matcherVars>>
    \/ \E environment \in Environments, ctx \in RebuildContexts :
            Transform(environment, ctx) /\ UNCHANGED <<unionVars, compileVars, matcherVars>>

InitRebuild == RebuildInit /\ UnionIdle /\ CompileIdle /\ MatcherIdle

SpecRebuild == InitRebuild /\ [][RebuildNext]_vars

----------------------------------------------------------------------------
(* unionFilters, one loop iteration at a time (filter.ts unionFilters) *)

\* calculateTransformFilter calls unionFilters with one entry per preset, and
\* only when there is at least one preset
UnionInit ==
    /\ dimKind \in {"id", "moduleType"}
    /\ rawFilters \in
         SeqsUpTo(IF dimKind = "moduleType" THEN ModuleTypeFilters ELSE GeneralFilters,
                  MaxFilters) \ {<<>>}
    /\ loopIndex = 0
    /\ matchAll = UnionStart.matchAll
    /\ includes = UnionStart.includes
    /\ excludeArrays = UnionStart.excludeArrays
    /\ unionResult = None

LoopState == [matchAll |-> matchAll, includes |-> includes, excludeArrays |-> excludeArrays]

\* lines 315-330, one pass of the loop body
UnionIterate ==
    /\ unionResult = None
    /\ loopIndex < Len(rawFilters)
    /\ LET st == UnionIteration(LoopState, rawFilters[loopIndex + 1], dimKind) IN
        /\ matchAll' = st.matchAll
        /\ includes' = st.includes
        /\ excludeArrays' = st.excludeArrays
    /\ loopIndex' = loopIndex + 1
    /\ UNCHANGED <<rawFilters, dimKind, unionResult>>

\* lines 332-335
UnionFinish ==
    /\ unionResult = None
    /\ loopIndex = Len(rawFilters)
    /\ unionResult' = Some(UnionReturn(LoopState, dimKind))
    /\ UNCHANGED <<rawFilters, dimKind, loopIndex, matchAll, includes, excludeArrays>>

UnionNext ==
    \/ UnionIterate /\ UNCHANGED <<pluginVars, compileVars, matcherVars>>
    \/ UnionFinish /\ UNCHANGED <<pluginVars, compileVars, matcherVars>>

InitUnion == UnionInit /\ PluginIdle /\ CompileIdle /\ MatcherIdle

SpecUnion == InitUnion /\ [][UnionNext]_vars

----------------------------------------------------------------------------
(* compilePresetFilter and the predicate it returns (rolldownPreset.ts:91-103) *)

CompileInit ==
    /\ presetFilter \in PresetFilters
    /\ compiledFilter = None
    /\ filterCtx = None
    /\ filterVerdict = FALSE

\* compiledFilter is None before the call, Some(what the call returned) after
CompilePresetFilterCall ==
    /\ compiledFilter = None
    /\ compiledFilter' = Some(compilePresetFilter(presetFilter))
    /\ UNCHANGED <<presetFilter, filterCtx, filterVerdict>>

\* convertToBabelPresetItem calls the predicate only when there is one
CompiledFilterCall(ctx) ==
    /\ compiledFilter # None
    /\ Get(compiledFilter) # None
    /\ filterCtx' = Some(ctx)
    /\ filterVerdict' = CompiledPresetFilter(Get(Get(compiledFilter)), ctx)
    /\ UNCHANGED <<presetFilter, compiledFilter>>

CompileNext ==
    \/ CompilePresetFilterCall /\ UNCHANGED <<pluginVars, unionVars, matcherVars>>
    \/ \E ctx \in Contexts : CompiledFilterCall(ctx) /\ UNCHANGED <<pluginVars, unionVars, matcherVars>>

InitCompile == CompileInit /\ PluginIdle /\ UnionIdle /\ MatcherIdle

SpecCompile == InitCompile /\ [][CompileNext]_vars

----------------------------------------------------------------------------
(* The matcher of one dimension with its RegExp objects (rolldownPreset.ts:30-74) *)
(* A RegExp object carries lastIndex; `test` reads and writes it when the    *)
(* g or the y flag is set (ECMAScript RegExpBuiltinExec).                    *)

\* the literal needle occurs in hay at the 0-based index k
OccursAt(needle, hay, k) ==
    /\ k + Len(needle) <= Len(hay)
    /\ SubSeq(hay, k + 1, k + Len(needle)) = needle

\* pattern.test(value) on a RegExp object whose lastIndex is lastIndex:
\* the result and the lastIndex the object is left with
RegExpBuiltinExec(pattern, value, lastIndex) ==
    LET flags == Range(pattern.flags)
        needle == IF "i" \in flags THEN LowerSeq(pattern.source) ELSE pattern.source
        hay == IF "i" \in flags THEN LowerSeq(value) ELSE value
        starts == IF "y" \in flags THEN {lastIndex} ELSE lastIndex..Len(hay)
        found == {k \in starts : OccursAt(needle, hay, k)}
    IN  IF ~("g" \in flags \/ "y" \in flags)
        THEN [result |-> RegExpTest(pattern, value), lastIndex |-> lastIndex]
        ELSE IF lastIndex > Len(hay) \/ found = {}
        THEN [result |-> FALSE, lastIndex |-> 0]
        ELSE LET k == CHOOSE k \in found : \A j \in found : k <= j
             IN  [result |-> TRUE, lastIndex |-> k + Len(needle)]

\* the matcher compilePattern returns, called on the object it captured
compilePatternCall(pattern, value, lastIndex) ==
    IF pattern.kind = "r" THEN RegExpBuiltinExec(pattern, value, lastIndex)
    ELSE [result |-> picomatch(pattern.source, value), lastIndex |-> lastIndex]

\* matchers.some(m => m(value)) from entry i on: stops at the first match
RECURSIVE compilePatternsFrom(_, _, _, _)
compilePatternsFrom(patterns, value, lastIndexes, i) ==
    IF i > Len(patterns) THEN [result |-> FALSE, lastIndexes |-> lastIndexes]
    ELSE LET r == compilePatternCall(patterns[i], value, lastIndexes[i])
             after == [lastIndexes EXCEPT ![i] = r.lastIndex]
         IN  IF r.result THEN [result |-> TRUE, lastIndexes |-> after]
             ELSE compilePatternsFrom(patterns, value, after, i + 1)

compilePatternsCall(patterns, value, lastIndexes) ==
    compilePatternsFrom(patterns, value, lastIndexes, 1)

\* the closure of compileGeneralHookFilter (lines 67-73) called on value:
\* `!excludeMatcher(value) && includeMatcher(value)` evaluates the exclude
\* list first and the include list only when no exclude entry matched
GeneralMatcherCall(m, value, includeIndexes, excludeIndexes) ==
    LET ex == IF m.exclude = None
              THEN [result |-> FALSE, lastIndexes |-> excludeIndexes]
              ELSE compilePatternsCall(Get(m.exclude), value, excludeIndexes)
        inc == IF m.include = None \/ ex.result
               THEN [result |-> ~ex.result, lastIndexes |-> includeIndexes]
               ELSE compilePatternsCall(Get(m.include), value, includeIndexes)
    IN  [result |-> ~ex.result /\ inc.result,
         includeLastIndex |-> inc.lastIndexes,
         excludeLastIndex |-> ex.lastIndexes]

\* new RegExp objects: lastIndex 0
FreshIndexes(list) == IF list = None THEN <<>> ELSE [i \in 1..Len(Get(list)) |-> 0]

RAg == Re(<<"a">>, <<"g">>)
RBy == Re(<<"b">>, <<"y">>)
MatcherPatterns == {RA, RAg, RBy, SA}
MatcherIncludes == {None} \cup {Some(l) : l \in SeqsUpTo(MatcherPatterns, 2)}
MatcherExcludes == {None, Some(<<RB>>), Some(<<RAg>>)}
MatcherFilters ==
    {Obj(
        IF i = None THEN None ELSE Some(Arr(Get(i))),
        IF e = None THEN None ELSE Some(Arr(Get(e)))) :
        i \in MatcherIncludes, e \in MatcherExcludes}

\* compileGeneralHookFilter(filter) has run; a filter that compiles to
\* `undefined` has no matcher to call
MatcherInit ==
    /\ \E filter \in MatcherFilters :
            /\ compileGeneralHookFilter(filter) # None
            /\ matcherFilter = compileGeneralHookFilter(filter)
    /\ includeLastIndex = FreshIndexes(Get(matcherFilter).include)
    /\ excludeLastIndex = FreshIndexes(Get(matcherFilter).exclude)
    /\ matcherValue = None
    /\ matcherVerdict = FALSE

MatcherCall(value) ==
    LET r == GeneralMatcherCall(Get(matcherFilter), value, includeLastIndex, excludeLastIndex)
    IN  /\ matcherValue' = Some(value)
        /\ matcherVerdict' = r.result
        /\ includeLastIndex' = r.includeLastIndex
        /\ excludeLastIndex' = r.excludeLastIndex
        /\ UNCHANGED matcherFilter

MatcherNext ==
    \E value \in Ids : MatcherCall(value) /\ UNCHANGED <<pluginVars, unionVars, compileVars>>

InitMatcher == MatcherInit /\ PluginIdle /\ UnionIdle /\ CompileIdle

SpecMatcher == InitMatcher /\ [][MatcherNext]_vars

----------------------------------------------------------------------------
(* Vocabulary of the properties *)

\* some pattern of the list matches the value
MatchesSome(patterns, value) == \E p \in Range(patterns) : compilePattern(p, value)

\* The include list and the exclude list of a raw path or content filter (None
\* when it has none): a single pattern and a bare array are include lists, an
\* object carries its own lists.
IncludeListOf(raw) ==
    IF raw = None THEN None
    ELSE IF Get(raw).shape \in {"single", "array"} THEN Some(Get(raw).items)
    ELSE IF Get(raw).include = None THEN None
    ELSE Some(Get(Get(raw).include).items)

ExcludeListOf(raw) ==
    IF raw = None THEN None
    ELSE IF Get(raw).shape \in {"single", "array"} THEN None
    ELSE IF Get(raw).exclude = None THEN None
    ELSE Some(Get(Get(raw).exclude).items)

\* the tags of a raw category filter (None when it lists none)
TagListOf(raw) ==
    IF raw = None THEN None
    ELSE IF Get(raw).isArray THEN Some(Get(raw).items)
    ELSE Get(raw).include

\* a path or content dimension with these lists accepts the value
ListsAccept(include, exclude, value) ==
    /\ exclude # None => ~MatchesSome(Get(exclude), value)
    /\ include # None => MatchesSome(Get(include), value)

GeneralConstrained(raw) == IncludeListOf(raw) # None \/ ExcludeListOf(raw) # None
GeneralAccepts(raw, value) == ListsAccept(IncludeListOf(raw), ExcludeListOf(raw), value)
TagsConstrained(raw) == TagListOf(raw) # None /\ Get(TagListOf(raw)) # <<>>
TagsAccept(raw, value) == value \in Range(Get(TagListOf(raw)))

\* the FilterSpec constrains no dimension
Unconstrained(filter) ==
    \/ filter = None
    \/ /\ ~GeneralConstrained(Get(filter).id)
       /\ ~TagsConstrained(Get(filter).moduleType)
       /\ ~GeneralConstrained(Get(filter).code)

\* every constrained dimension of the FilterSpec accepts its value of ctx
FilterAccepts(filter, ctx) ==
    \/ filter = None
    \/ /\ GeneralConstrained(Get(filter).id) => GeneralAccepts(Get(filter).id, ctx.id)
       /\ TagsConstrained(Get(filter).moduleType)
            => TagsAccept(Get(filter).moduleType, ctx.moduleType)
       /\ GeneralConstrained(Get(filter).code) => GeneralAccepts(Get(filter).code, ctx.code)

Compiled == Get(compiledFilter)

----------------------------------------------------------------------------
(* Properties of the dimension filter compiler, under SpecCompile *)

\* the FilterSpec constrains exactly the path dimension / the content dimension
OnlyId == presetFilter # None /\ Get(presetFilter).moduleType = None
            /\ Get(presetFilter).code = None /\ GeneralConstrained(Get(presetFilter).id)
OnlyCode == presetFilter # None /\ Get(presetFilter).moduleType = None
            /\ Get(presetFilter).id = None /\ GeneralConstrained(Get(presetFilter).code)

\* C4: a compiled path or content dimension accepts a value iff the value
\* matches no exclude pattern (when there is an exclude list) and matches some
\* include pattern (when there is an include list), so that a value both
\* included and excluded is rejected; a dimension with neither list has no
\* predicate.
C4_DimensionSemantics ==
    /\ (compiledFilter # None /\ presetFilter # None /\ Compiled # None) =>
          /\ (Get(Compiled).matchId # None) <=> GeneralConstrained(Get(presetFilter).id)
          /\ (Get(Compiled).matchCode # None) <=> GeneralConstrained(Get(presetFilter).code)
    /\ (filterCtx # None /\ OnlyId) =>
          filterVerdict = GeneralAccepts(Get(presetFilter).id, Get(filterCtx).id)
    /\ (filterCtx # None /\ OnlyCode) =>
          filterVerdict = GeneralAccepts(Get(presetFilter).code, Get(filterCtx).code)

\* a path filter with both lists was called with a path that is both included
\* and excluded, and rejected it
C4_Witness ==
    /\ filterCtx # None /\ OnlyId
    /\ IncludeListOf(Get(presetFilter).id) # None
    /\ ExcludeListOf(Get(presetFilter).id) # None
    /\ MatchesSome(Get(IncludeListOf(Get(presetFilter).id)), Get(filterCtx).id)
    /\ MatchesSome(Get(ExcludeListOf(Get(presetFilter).id)), Get(filterCtx).id)
    /\ filterVerdict = FALSE

\* C5: the compiled FilterSpec accepts a context iff every constrained
\* dimension accepts its value (an unconstrained dimension is skipped), and a
\* FilterSpec that constrains no dimension compiles to no predicate.
C5_FilterSpecConjunction ==
    /\ compiledFilter # None => ((Compiled = None) <=> Unconstrained(presetFilter))
    /\ filterCtx # None => (filterVerdict = FilterAccepts(presetFilter, Get(filterCtx)))

\* a FilterSpec with an unconstrained path, whose category accepts the context
\* and whose content rejects it, rejected the context
C5_Witness ==
    /\ filterCtx # None
    /\ ~GeneralConstrained(Get(presetFilter).id)
    /\ TagsConstrained(Get(presetFilter).moduleType)
    /\ TagsAccept(Get(presetFilter).moduleType, Get(filterCtx).moduleType)
    /\ GeneralConstrained(Get(presetFilter).code)
    /\ ~GeneralAccepts(Get(presetFilter).code, Get(filterCtx).code)
    /\ filterVerdict = FALSE

----------------------------------------------------------------------------
(* Properties of unionFilters, under SpecUnion *)

\* the preset has no filter for the dimension, or a filter without include list
LacksInclude(raw) ==
    \/ raw = None
    \/ IF dimKind = "moduleType" THEN ~Get(raw).isArray /\ Get(raw).include = None
       ELSE IncludeListOf(raw) = None

\* the exclude list of the preset's filter for the dimension (the category
\* dimension has none)
ExcludesOf(raw) == IF dimKind = "moduleType" THEN None ELSE ExcludeListOf(raw)

\* the patterns that occur in the exclude list of every preset
SharedExcludes ==
    { p \in UNION { IF ExcludesOf(rawFilters[i]) = None THEN {}
                    ELSE Range(Get(ExcludesOf(rawFilters[i]))) : i \in 1..Len(rawFilters) } :
        \A i \in 1..Len(rawFilters) :
            /\ ExcludesOf(rawFilters[i]) # None
            /\ p \in Range(Get(ExcludesOf(rawFilters[i]))) }

\* C6: once the loop has examined a preset that lacks an include for the
\* dimension, wherever it stands in the list, the union is match-all, stays
\* match-all while further presets are examined, and the composed include is
\* undefined.
C6_UnionMonotonicity ==
    (\E i \in 1..loopIndex : LacksInclude(rawFilters[i])) =>
        /\ matchAll
        /\ unionResult # None => Get(unionResult).includes = None

\* a preset without include was followed by a preset with a non-empty include
\* list, and the composed include is undefined
C6_Witness ==
    /\ unionResult # None
    /\ dimKind = "id"
    /\ \E i \in 1..Len(rawFilters) : \E j \in (i + 1)..Len(rawFilters) :
          /\ LacksInclude(rawFilters[i])
          /\ ~LacksInclude(rawFilters[j])
          /\ Get(IncludeListOf(rawFilters[j])) # <<>>
    /\ Get(unionResult).includes = None

\* C7: the composed exclude holds exactly the patterns that occur, as equal
\* patterns (same kind, same source, same flags), in the exclude list of every
\* preset; a preset without exclude list leaves it empty.
C7_ExcludeIntersection ==
    unionResult # None => Range(Get(unionResult).excludes) = SharedExcludes

\* two presets exclude {A, B} and {B, C}: the composed exclude is exactly <<B>>
C7_Witness ==
    /\ unionResult # None
    /\ Len(rawFilters) = 2
    /\ ExcludesOf(rawFilters[1]) # None /\ ExcludesOf(rawFilters[2]) # None
    /\ LET e1 == Range(Get(ExcludesOf(rawFilters[1])))
           e2 == Range(Get(ExcludesOf(rawFilters[2])))
       IN  /\ Cardinality(e1) = 2 /\ Cardinality(e2) = 2
           /\ \E b \in e1 \cap e2 :
                /\ e1 \cap e2 = {b}
                /\ Get(unionResult).excludes = <<b>>

\* the include list of the preset's filter for the dimension, None when the
\* filter has none
IncludesOf(raw) ==
    IF raw = None THEN None
    ELSE IF dimKind = "moduleType" THEN TagListOf(raw)
    ELSE IncludeListOf(raw)

RECURSIVE IncludesInRuleOrderFrom(_)
\* the include lists of presets i.. one after the other
IncludesInRuleOrderFrom(i) ==
    IF i > Len(rawFilters) THEN <<>>
    ELSE Get(IncludesOf(rawFilters[i])) \o IncludesInRuleOrderFrom(i + 1)

IncludesInRuleOrder == IncludesInRuleOrderFrom(1)

EveryRuleHasIncludes == \A i \in 1..Len(rawFilters) : IncludesOf(rawFilters[i]) # None

\* C12: whenever every preset has an include list for the dimension, the
\* composed include is the union of the presets' include lists: every pattern
\* of every list and no other pattern, in rule order.
C12_IncludeUnionOfAll ==
    (unionResult # None /\ EveryRuleHasIncludes) =>
        Get(unionResult).includes = Some(IncludesInRuleOrder)

\* What holds of the composed include: when every preset has an include list
\* for the dimension (for the category dimension a non-empty one) and the lists
\* are not all empty, it is the presets' include lists one after the other in
\* rule order.
IncludeUnionOfNonEmpty ==
    (/\ unionResult # None
     /\ EveryRuleHasIncludes
     /\ dimKind = "moduleType" =>
            \A i \in 1..Len(rawFilters) : Get(IncludesOf(rawFilters[i])) # <<>>
     /\ IncludesInRuleOrder # <<>>) =>
        /\ Get(unionResult).includes = Some(IncludesInRuleOrder)
        /\ Range(Get(Get(unionResult).includes)) =
              UNION {Range(Get(IncludesOf(rawFilters[i]))) : i \in 1..Len(rawFilters)}

\* the category lists <<"tsx", "jsx">> and <<"tsx">> compose to a list that
\* holds tsx and jsx
IncludeUnionReached ==
    /\ unionResult # None
    /\ dimKind = "moduleType"
    /\ Len(rawFilters) = 2
    /\ EveryRuleHasIncludes
    /\ Get(IncludesOf(rawFilters[1])) = <<"tsx", "jsx">>
    /\ Get(IncludesOf(rawFilters[2])) = <<"tsx">>
    /\ Range(Get(Get(unionResult).includes)) = {"tsx", "jsx"}

----------------------------------------------------------------------------
(* Properties of the plugin, under Spec *)

\* the last transform call and what the converter returned for it
Ctx == Get(lastCtx)
BabelOptions == Get(lastBabelOptions)
\* the options the converter of the environment was created with
ConverterOptions == Get(envState[lastEnv]).options
PreFilter == Get(transformFilter)
\* the options the pre-filter was computed from: the phase-filtered options
\* under Vite, the raw options under plain Rolldown
FilterOptions == IF viteVersion THEN Get(configFilteredOptions) ELSE rawOptions

\* the user-level setting as a pattern list: None when it holds a predicate
\* function or no pattern at all
UserList(test) ==
    IF test = None THEN None
    ELSE IF \E i \in 1..Len(Get(test).items) : Get(test).items[i].kind = "f" THEN None
    ELSE IF Get(test).items = <<>> THEN None
    ELSE Some(Get(test).items)

UserInclude ==
    UserList(IF FilterOptions.include # None THEN FilterOptions.include ELSE Some(DEFAULT_INCLUDE))
UserExclude ==
    UserList(IF FilterOptions.exclude # None THEN FilterOptions.exclude ELSE Some(DEFAULT_EXCLUDE))

\* the host drops the file: its path, category or content does not satisfy
\* the filter
PreFilterRejects(filter, ctx) ==
    \/ /\ filter.id # None
       /\ ~ListsAccept(Get(filter.id).include, Get(filter.id).exclude, ctx.id)
    \/ /\ filter.moduleType # None
       /\ ctx.moduleType \notin Range(Get(filter.moduleType))
    \/ /\ filter.code # None
       /\ ~ListsAccept(Some(Get(filter.code).include), Get(filter.code).exclude, ctx.code)

\* the user-level path filter alone drops the file
UserFilterRejects(ctx) == ~ListsAccept(UserInclude, UserExclude, ctx.id)

\* the top-level rule list of the returned configuration is absent or empty
NoRuleSelected == BabelOptions.presets = None \/ Get(BabelOptions.presets) = <<>>

\* the rule is plain, annotated without FilterSpec, annotated with a
\* FilterSpec that constrains nothing, or annotated with one that accepts ctx
Selects(preset, ctx) ==
    \/ ~preset.rolldown
    \/ preset.filter = None
    \/ Unconstrained(preset.filter)
    \/ FilterAccepts(preset.filter, ctx)

Payloads(presets) == [i \in 1..Len(presets) |-> presets[i].preset]

\* selected holds the payload of exactly the rules of presets that Selects
\* keeps, each once
ExactlySelected(selected, presets, ctx) ==
    /\ Range(selected) = {presets[i].preset : i \in {j \in 1..Len(presets) : Selects(presets[j], ctx)}}
    /\ Len(selected) = Cardinality({j \in 1..Len(presets) : Selects(presets[j], ctx)})

\* sub is src with some items left out: there are strictly increasing
\* positions of src that hold the items of sub
IsSubsequence(sub, src) ==
    \E pos \in [1..Len(sub) -> 1..Len(src)] :
        /\ \A i \in 1..Len(sub) : sub[i] = src[pos[i]]
        /\ \A i \in 1..Len(sub) : \A j \in 1..Len(sub) : i < j => pos[i] < pos[j]

\* the rule lists of the configuration, paired with what was selected from
\* them: the top-level list and the list of every override block
RuleLists ==
    (IF ConverterOptions.presets # None
     THEN {[source |-> Get(ConverterOptions.presets), selected |-> Get(BabelOptions.presets)]}
     ELSE {})
    \cup
    (IF ConverterOptions.overrides # None
     THEN {[source |-> Get(Get(ConverterOptions.overrides)[i].presets),
            selected |-> Get(Get(BabelOptions.overrides)[i].presets)] :
            i \in {j \in 1..Len(Get(ConverterOptions.overrides)) :
                    Get(ConverterOptions.overrides)[j].presets # None}}
     ELSE {})

\* the original reading of C1: a file the pre-filter rejects never has a rule
\* selected for it
C1_Original ==
    (lastCtx # None /\ PreFilterRejects(PreFilter, Ctx)) => NoRuleSelected

\* C1: a file that the pre-filter rejects although the user-level path filter
\* accepts its path has no top-level rule selected for it by the rule
\* selector.
C1_PreFilterSound ==
    (lastCtx # None /\ PreFilterRejects(PreFilter, Ctx) /\ ~UserFilterRejects(Ctx))
        => NoRuleSelected

\* rules were configured, the user-level filter accepts the path, the
\* pre-filter rejects the file and the selector drops every rule
C1_Witness ==
    /\ lastCtx # None
    /\ ConverterOptions.presets # None /\ Len(Get(ConverterOptions.presets)) = 2
    /\ PreFilterRejects(PreFilter, Ctx)
    /\ ~UserFilterRejects(Ctx)
    /\ BabelOptions.presets = Some(<<>>)

\* C2: for every file, the selected rules of the top-level list and of every
\* override block are exactly the rules that are plain, annotated without a
\* FilterSpec, annotated with a FilterSpec constraining no dimension, or whose
\* FilterSpec accepts the file; nothing else is selected.
C2_ExactSelection ==
    lastCtx # None =>
        \A l \in RuleLists : ExactlySelected(l.selected, l.source, Ctx)

\* a list with a plain rule that is kept and an annotated rule that is dropped
C2_Witness ==
    /\ lastCtx # None
    /\ \E l \in RuleLists :
        /\ \E i \in 1..Len(l.source) : ~l.source[i].rolldown
        /\ \E i \in 1..Len(l.source) : ~Selects(l.source[i], Ctx)
        /\ Len(l.selected) = 1

\* C3: the selected rules are a subsequence of the configured rules: they
\* keep their relative order, at top level and in every override block.
C3_OrderPreserved ==
    lastCtx # None =>
        \A l \in RuleLists : IsSubsequence(l.selected, Payloads(l.source))

\* a rule between two selected rules was dropped
C3_Witness ==
    /\ lastCtx # None
    /\ \E l \in RuleLists :
        /\ Len(l.source) = 3
        /\ ~Selects(l.source[2], Ctx)
        /\ l.selected = <<l.source[1].preset, l.source[3].preset>>

\* no explicit plugin is configured at top level
NoPlugins == FilterOptions.plugins = None \/ Get(FilterOptions.plugins) = <<>>

\* there are rules, and every rule is annotated and carries a FilterSpec
AllRulesFiltered ==
    /\ FilterOptions.presets # None
    /\ Get(FilterOptions.presets) # <<>>
    /\ \A i \in 1..Len(Get(FilterOptions.presets)) :
          /\ Get(FilterOptions.presets)[i].rolldown
          /\ Get(FilterOptions.presets)[i].filter # None

\* the path include and the path exclude of the pre-filter
PathInclude == IF PreFilter.id = None THEN None ELSE Get(PreFilter.id).include
PathExclude ==
    IF PreFilter.id = None \/ Get(PreFilter.id).exclude = None THEN <<>>
    ELSE Get(Get(PreFilter.id).exclude)

UserExcludeList == IF UserExclude = None THEN <<>> ELSE Get(UserExclude)

\* the path exclude list of the rule (None for a rule without one)
RuleExcludes(preset) ==
    IF ~preset.rolldown \/ preset.filter = None THEN None
    ELSE ExcludeListOf(Get(preset.filter).id)

\* the patterns that every rule lists in its path exclude
PatternsExcludedByEveryRule ==
    IF FilterOptions.presets = None THEN {}
    ELSE LET presets == Get(FilterOptions.presets) IN
         { p \in UNION { IF RuleExcludes(presets[i]) = None THEN {}
                         ELSE Range(Get(RuleExcludes(presets[i]))) : i \in 1..Len(presets) } :
             \A i \in 1..Len(presets) :
                /\ RuleExcludes(presets[i]) # None
                /\ p \in Range(Get(RuleExcludes(presets[i]))) }

\* list is prefix followed by a list of exactly the patterns of rest
PrefixThen(list, prefix, rest) ==
    /\ Len(list) >= Len(prefix)
    /\ SubSeq(list, 1, Len(prefix)) = prefix
    /\ Range(SubSeq(list, Len(prefix) + 1, Len(list))) = rest

\* a path that matches some pattern of the path exclude is rejected
ExcludedPathsRejected ==
    \A id \in Ids :
        MatchesSome(PathExclude, id) =>
            PreFilterRejects(PreFilter, [id |-> id, moduleType |-> "js", code |-> <<"a">>])

\* C8: when the user-level include (user-supplied or default) is a pattern
\* list, the path include of the pre-filter is exactly that list, whatever
\* includes the rules carry.
C8_UserIncludePrecedence ==
    (transformFilter # None /\ UserInclude # None) =>
        PathInclude = UserInclude

\* the user supplied an include list, every rule carries a non-empty path
\* include of other patterns, and the path include is the user's list
C8_Witness ==
    /\ transformFilter # None
    /\ FilterOptions.include # None /\ UserInclude # None
    /\ NoPlugins /\ AllRulesFiltered
    /\ \A i \in 1..Len(Get(FilterOptions.presets)) :
          LET inc == IncludeListOf(Get(Get(FilterOptions.presets)[i].filter).id) IN
          /\ inc # None /\ Get(inc) # <<>>
          /\ Range(Get(inc)) \cap Range(Get(UserInclude)) = {}
    /\ PathInclude = UserInclude

\* the original reading of C9: the path exclude is always the user-level
\* exclude list followed by the patterns excluded by every rule
C9_Original ==
    transformFilter # None =>
        PrefixThen(PathExclude, UserExcludeList, PatternsExcludedByEveryRule)

\* C9: the path exclude of the pre-filter starts with the user-level exclude
\* list; it is followed by the patterns excluded by every rule when no
\* explicit plugin is configured, and by nothing otherwise; a path matching
\* any pattern of the result is rejected.
C9_ExcludeConcatenation ==
    transformFilter # None =>
        /\ PrefixThen(PathExclude, UserExcludeList,
                      IF NoPlugins THEN PatternsExcludedByEveryRule ELSE {})
        /\ ExcludedPathsRejected

\* a user exclude list and a pattern excluded by every rule are both in the
\* result, the user's first
C9_Witness ==
    /\ transformFilter # None
    /\ NoPlugins
    /\ UserExcludeList # <<>>
    /\ PatternsExcludedByEveryRule # {}
    /\ Len(PathExclude) > Len(UserExcludeList)
    /\ PrefixThen(PathExclude, UserExcludeList, PatternsExcludedByEveryRule)

\* C10: with an explicit plugin, or no rule, or a rule that is plain or
\* annotated without FilterSpec, the pre-filter is the user-level path filter
\* alone: its path include and exclude are the user (or default) lists, and it
\* has neither category nor content.
C10_UserFilterAlone ==
    (transformFilter # None /\ ~(NoPlugins /\ AllRulesFiltered)) =>
        /\ PathInclude = UserInclude
        /\ PathExclude = UserExcludeList
        /\ PreFilter.moduleType = None
        /\ PreFilter.code = None

\* an explicit plugin is configured next to rules that all carry filters, one
\* of them on category and content, and the pre-filter is the user-level path
\* filter alone
C10_Witness ==
    /\ transformFilter # None
    /\ ~NoPlugins /\ AllRulesFiltered
    /\ \E i \in 1..Len(Get(FilterOptions.presets)) :
          LET f == Get(Get(FilterOptions.presets)[i].filter) IN
          TagsConstrained(f.moduleType) /\ GeneralConstrained(f.code)
    /\ PathInclude = UserInclude
    /\ PathExclude = UserExcludeList
    /\ PreFilter.moduleType = None /\ PreFilter.code = None

\* the FilterSpec of rule i of the list the pre-filter was computed from
RuleFilter(i) == Get(Get(FilterOptions.presets)[i].filter)
RuleCount == IF FilterOptions.presets = None THEN 0 ELSE Len(Get(FilterOptions.presets))

\* C11: the pre-filter has a category entry only when every configured rule
\* constrains category, and a content entry only when every configured rule
\* constrains content: one rule that does not constrain the dimension makes
\* the entry absent.
C11_EntriesNeedEveryRule ==
    transformFilter # None =>
        /\ PreFilter.moduleType # None =>
              /\ AllRulesFiltered
              /\ \A i \in 1..RuleCount : TagsConstrained(RuleFilter(i).moduleType)
        /\ PreFilter.code # None =>
              /\ AllRulesFiltered
              /\ \A i \in 1..RuleCount : GeneralConstrained(RuleFilter(i).code)

\* two rules that both constrain category, only one of which constrains
\* content: the pre-filter has a category entry and no content entry
C11_Witness ==
    /\ transformFilter # None
    /\ NoPlugins /\ AllRulesFiltered /\ RuleCount = 2
    /\ \A i \in 1..2 : TagsConstrained(RuleFilter(i).moduleType)
    /\ \E i \in 1..2 : GeneralConstrained(RuleFilter(i).code)
    /\ \E i \in 1..2 : ~GeneralConstrained(RuleFilter(i).code)
    /\ PreFilter.moduleType # None
    /\ PreFilter.code = None

\* the user-level setting holds at least one function entry
HoldsFunction(test) ==
    /\ test # None
    /\ \E i \in 1..Len(Get(test).items) : Get(test).items[i].kind = "f"

\* the user-level setting holds at least one string or regular expression
HoldsPattern(test) ==
    /\ test # None
    /\ \E i \in 1..Len(Get(test).items) : Get(test).items[i].kind # "f"

RECURSIVE RuleIdIncludesFrom(_)
\* the path include lists of rules i.. one after the other
RuleIdIncludesFrom(i) ==
    IF i > RuleCount THEN <<>>
    ELSE Get(IncludeListOf(RuleFilter(i).id)) \o RuleIdIncludesFrom(i + 1)

\* the path include that the rules alone give: None on the paths that return
\* the user-level filter, and when a rule has no path include
RulesIdInclude ==
    IF ~(NoPlugins /\ AllRulesFiltered) THEN None
    ELSE IF \E i \in 1..RuleCount : IncludeListOf(RuleFilter(i).id) = None THEN None
    ELSE IF RuleIdIncludesFrom(1) = <<>> THEN None
    ELSE Some(RuleIdIncludesFrom(1))

\* C13: a user-level include (or exclude) list that holds a function entry
\* gives no path include (resp. exclude) to the pre-filter, also when it holds
\* strings or regular expressions next to the function: the path include is
\* what the rules alone give (undefined when only the user-level filter is
\* used), the path exclude holds only the patterns excluded by every rule.
C13_FunctionEntryUnconstrains ==
    transformFilter # None =>
        /\ HoldsFunction(FilterOptions.include) => PathInclude = RulesIdInclude
        /\ HoldsFunction(FilterOptions.exclude) =>
              /\ Range(PathExclude) =
                    (IF NoPlugins THEN PatternsExcludedByEveryRule ELSE {})
              /\ ~(NoPlugins /\ AllRulesFiltered) =>
                    (PreFilter.id # None /\ Get(PreFilter.id).exclude = None)

\* include and exclude both hold a function next to a pattern, only the
\* user-level filter is used, and the pre-filter has neither path include nor
\* path exclude
C13_Witness ==
    /\ transformFilter # None
    /\ HoldsFunction(FilterOptions.include) /\ HoldsPattern(FilterOptions.include)
    /\ HoldsFunction(FilterOptions.exclude) /\ HoldsPattern(FilterOptions.exclude)
    /\ PreFilter.id = Some([include |-> None, exclude |-> None])

\* the rule of rawOptions that a hook call <<list, preset, argument>> is about
RuleOfCall(call) ==
    LET presets == PresetListAt(rawOptions, call[1]) IN
    presets[CHOOSE i \in 1..Len(presets) : presets[i].preset = call[2]]

\* the phase gate keeps the rule for the config
PassesPhaseGate(rule, config) ==
    \/ ~rule.rolldown
    \/ rule.configResolvedHook = None
    \/ config \in Get(rule.configResolvedHook)

\* the environment gate keeps the rule for the environment
PassesEnvironmentGate(rule, environment) ==
    \/ ~rule.rolldown
    \/ rule.applyToEnvironmentHook = None
    \/ environment \in Get(rule.applyToEnvironmentHook)

\* C14: in every hook sequence, every call of an environment gate is for a
\* rule that the phase gate kept: the environment gate of a rule removed by
\* the phase gate is never invoked, at top level and in override blocks.
C14_GateOrder ==
    \A call \in applyToEnvironmentHookCalls :
        /\ resolvedConfig # None
        /\ PassesPhaseGate(RuleOfCall(call), Get(resolvedConfig))

\* applyToEnvironment ran for an environment over an override block holding a
\* rule that the phase gate removed and that has an environment gate; the
\* environment gate of another rule of the block was invoked, the removed
\* rule's was not
C14_Witness ==
    /\ resolvedConfig # None
    /\ \E environment \in Environments :
        /\ applied[environment] # None
        /\ \E list \in PresetListIndexes(rawOptions) \ {0} :
            LET presets == PresetListAt(rawOptions, list) IN
            /\ \E i \in 1..Len(presets) :
                  /\ presets[i].rolldown
                  /\ presets[i].applyToEnvironmentHook # None
                  /\ ~PassesPhaseGate(presets[i], Get(resolvedConfig))
                  /\ <<list, presets[i].preset, environment>> \notin applyToEnvironmentHookCalls
            /\ \E i \in 1..Len(presets) :
                  <<list, presets[i].preset, environment>> \in applyToEnvironmentHookCalls

\* kept is source reduced to the rules that satisfy Passes: the same rules, in
\* the same order, none added
ReducedTo(kept, source, passing) ==
    /\ IsSubsequence(kept, source)
    /\ Range(kept) = {source[i] : i \in passing}
    /\ Len(kept) = Cardinality(passing)

\* reduced has the settings of options, and every preset list of options is
\* present in reduced (absent when it is absent in options)
SameButPresets(reduced, options) ==
    /\ reduced.include = options.include /\ reduced.exclude = options.exclude
    /\ reduced.plugins = options.plugins /\ reduced.sourceMap = options.sourceMap
    /\ (reduced.presets = None) = (options.presets = None)
    /\ (reduced.overrides = None) = (options.overrides = None)
    /\ options.overrides # None =>
          /\ Len(Get(reduced.overrides)) = Len(Get(options.overrides))
          /\ \A i \in 1..Len(Get(options.overrides)) :
                /\ Get(reduced.overrides)[i].plugins = Get(options.overrides)[i].plugins
                /\ (Get(reduced.overrides)[i].presets = None)
                      = (Get(options.overrides)[i].presets = None)

\* C15: the phase gate keeps a rule iff it is plain, or has no phase-gate
\* function, or its phase-gate function returns true for the config; it does
\* so for the top-level list and for the list of every override block, and the
\* kept rules keep their relative order.
C15_PhaseGate ==
    configFilteredOptions # None =>
        LET kept == Get(configFilteredOptions) IN
        /\ SameButPresets(kept, rawOptions)
        /\ \A list \in PresetListIndexes(rawOptions) :
              LET source == PresetListAt(rawOptions, list) IN
              ReducedTo(PresetListAt(kept, list), source,
                        {i \in 1..Len(source) : PassesPhaseGate(source[i], Get(resolvedConfig))})

\* the phase gate removed the middle rule of an override block and kept the
\* rules around it
C15_Witness ==
    /\ configFilteredOptions # None
    /\ \E list \in PresetListIndexes(rawOptions) \ {0} :
        LET source == PresetListAt(rawOptions, list) IN
        /\ Len(source) = 3
        /\ PresetListAt(Get(configFilteredOptions), list) = <<source[1], source[3]>>

\* the options that applyToEnvironment computed for the environment
EnvOptions(environment) == Get(applied[environment]).envOptions

\* C16: the environment gate, applied once per environment to the
\* phase-filtered options, keeps a rule iff it is plain, or has no
\* environment-gate function, or that function returns true for the
\* environment; it does so at top level and in every override block, in rule
\* order, and every environment is given the same phase-filtered options.
C16_EnvironmentGate ==
    \A environment \in Environments :
        applied[environment] # None =>
            LET phaseFiltered == Get(configFilteredOptions) IN
            /\ SameButPresets(EnvOptions(environment), phaseFiltered)
            /\ \A list \in PresetListIndexes(phaseFiltered) :
                  LET source == PresetListAt(phaseFiltered, list) IN
                  ReducedTo(PresetListAt(EnvOptions(environment), list), source,
                            {i \in 1..Len(source) :
                                PassesEnvironmentGate(source[i], environment)})
            /\ phaseFiltered = filterPresetsWithConfigResolved(rawOptions, Get(resolvedConfig))

\* both environments were given the phase-filtered list; a rule of it was
\* kept for one environment and removed for the other
C16_Witness ==
    /\ \A environment \in Environments : applied[environment] # None
    /\ LET source == PresetListAt(Get(configFilteredOptions), 0) IN
       \E i \in 1..Len(source) :
          /\ source[i] \in Range(PresetListAt(EnvOptions("client"), 0))
          /\ source[i] \notin Range(PresetListAt(EnvOptions("ssr"), 0))

\* the presets selected by the latest transform call from the list
SelectedAt(list) ==
    IF list = 0
    THEN IF BabelOptions.presets # None THEN Get(BabelOptions.presets) ELSE <<>>
    ELSE IF Get(BabelOptions.overrides)[list].presets # None
         THEN Get(Get(BabelOptions.overrides)[list].presets) ELSE <<>>

\* C17: under Vite there is one converter per environment name, made from the
\* options computed for that environment; a transform in environment E selects
\* a rule only if the rule passed the phase gate and its environment gate
\* accepts E (or it has none), in whatever order the environments were
\* registered and their files transformed.
C17_EnvironmentIsolation ==
    viteVersion =>
        /\ envState[UndefinedEnv] = None
        /\ \A environment \in Environments :
              envState[environment] # None =>
                /\ applied[environment] # None
                /\ Get(envState[environment]).options = resolveOptions(EnvOptions(environment))
        /\ lastCtx # None =>
              \A list \in PresetListIndexes(rawOptions) :
                 \A p \in Range(SelectedAt(list)) :
                    LET rule == RuleOfCall(<<list, p, lastEnv>>) IN
                    /\ PassesPhaseGate(rule, Get(resolvedConfig))
                    /\ PassesEnvironmentGate(rule, lastEnv)

\* both environments have a converter, the client's holds a rule enabled for
\* the client only, and a file of ssr was transformed with other rules only
C17_Witness ==
    /\ viteVersion
    /\ lastCtx # None /\ lastEnv = "ssr"
    /\ envState["client"] # None
    /\ \E i \in 1..Len(PresetListAt(rawOptions, 0)) :
        LET rule == PresetListAt(rawOptions, 0)[i] IN
        /\ rule.rolldown /\ rule.applyToEnvironmentHook = Some({"client"})
        /\ rule \in Range(PresetListAt(Get(envState["client"]).options, 0))
        /\ rule.preset \notin Range(SelectedAt(0))
    /\ SelectedAt(0) # <<>>

\* the list is absent or empty
NoneOrEmpty(list) == list = None \/ Get(list) = <<>>

\* the options hold no top-level preset, no top-level plugin and no override
\* block with a preset or a plugin
NothingLeft(options) ==
    /\ NoneOrEmpty(options.presets)
    /\ NoneOrEmpty(options.plugins)
    /\ options.overrides # None =>
          \A i \in 1..Len(Get(options.overrides)) :
             /\ NoneOrEmpty(Get(options.overrides)[i].presets)
             /\ NoneOrEmpty(Get(options.overrides)[i].plugins)

\* C18: applyToEnvironment returns false and stores no converter for the
\* environment iff the options left by the environment gate hold no top-level
\* preset, no top-level plugin and no override block with presets or plugins;
\* otherwise it returns true and stores a converter under the environment's
\* name.
C18_EmptyEnvironmentSkipped ==
    \A environment \in Environments :
        applied[environment] # None =>
            /\ Get(applied[environment]).returned = ~NothingLeft(EnvOptions(environment))
            /\ (envState[environment] = None) = NothingLeft(EnvOptions(environment))

\* an override block keeps a rule for the client and none for ssr, nothing
\* else is configured: the client has a converter, ssr was skipped
C18_Witness ==
    /\ \A environment \in Environments : applied[environment] # None
    /\ NoneOrEmpty(rawOptions.presets) /\ NoneOrEmpty(rawOptions.plugins)
    /\ Get(applied["client"]).returned /\ envState["client"] # None
    /\ ~Get(applied["ssr"]).returned /\ envState["ssr"] = None

\* C19: without Vite no gate function is ever invoked, the only converter is
\* the one stored under the undefined key, and per-file selection is made
\* from the rules as configured: a rule whose gate functions would return
\* false is selected like any other.
C19_GatesIgnoredWithoutVite ==
    ~viteVersion =>
        /\ configResolvedHookCalls = {}
        /\ applyToEnvironmentHookCalls = {}
        /\ \A environment \in Environments : envState[environment] = None
        /\ lastCtx # None =>
              /\ lastEnv = UndefinedEnv
              /\ \A list \in PresetListIndexes(rawOptions) :
                    ExactlySelected(SelectedAt(list), PresetListAt(rawOptions, list), Ctx)

\* without Vite a file was transformed with a rule whose phase gate accepts no
\* config and a rule whose environment gate accepts no environment
C19_Witness ==
    /\ ~viteVersion
    /\ lastCtx # None
    /\ \E i, j \in 1..Len(PresetListAt(rawOptions, 0)) :
        LET first == PresetListAt(rawOptions, 0)[i]
            second == PresetListAt(rawOptions, 0)[j]
        IN  /\ first.rolldown /\ first.configResolvedHook = Some({})
            /\ second.rolldown /\ second.applyToEnvironmentHook = Some({})
            /\ {first.preset, second.preset} \subseteq Range(SelectedAt(0))

\* the top-level rules handed to the filter algebra
FilterRules == PresetListAt(FilterOptions, 0)

\* the original reading of C20: while files of an environment are
\* transformed, the pre-filter in force was computed only from rules that
\* passed both the phase gate and that environment's gate
C20_Original ==
    (viteVersion /\ lastCtx # None) =>
        \A i \in 1..Len(FilterRules) :
            /\ PassesPhaseGate(FilterRules[i], Get(resolvedConfig))
            /\ PassesEnvironmentGate(FilterRules[i], lastEnv)

\* C20: while files of an environment are transformed, the pre-filter in
\* force is the one computed from exactly the top-level rules that passed the
\* phase gate, whether or not they pass the gate of that environment.
C20_FilterFromPhaseFilteredRules ==
    (viteVersion /\ lastCtx # None) =>
        /\ ReducedTo(FilterRules, PresetListAt(rawOptions, 0),
                     {i \in 1..Len(PresetListAt(rawOptions, 0)) :
                        PassesPhaseGate(PresetListAt(rawOptions, 0)[i], Get(resolvedConfig))})
        /\ PreFilter = calculatePluginFilters(resolveOptions(FilterOptions)).transformFilter

\* a file of an environment was transformed while the pre-filter in force had
\* been computed from a rule that the gate of the environment removes, after
\* the phase gate had removed another rule
C20_Witness ==
    /\ viteVersion /\ lastCtx # None
    /\ \E i \in 1..Len(FilterRules) : ~PassesEnvironmentGate(FilterRules[i], lastEnv)
    /\ Len(FilterRules) < Len(PresetListAt(rawOptions, 0))

----------------------------------------------------------------------------
(* Properties of a dimension matcher across calls, under SpecMatcher *)

\* what a matcher compiled afresh from the same filter returns for value
FreshVerdict(value) ==
    GeneralMatcherCall(Get(matcherFilter), value,
                       FreshIndexes(Get(matcherFilter).include),
                       FreshIndexes(Get(matcherFilter).exclude)).result

HasStatefulFlag(list) ==
    /\ list # None
    /\ \E i \in 1..Len(Get(list)) :
            /\ Get(list)[i].kind = "r"
            /\ Range(Get(list)[i].flags) \cap {"g", "y"} # {}

StatefulFilter ==
    HasStatefulFlag(Get(matcherFilter).include) \/ HasStatefulFlag(Get(matcherFilter).exclude)

\* C21: selection is pure: what the matcher of a rule returns for a value
\* depends only on the value, whatever values it was called with before,
\* regular expressions with flags included.
C21_SelectionPure ==
    matcherValue # None => matcherVerdict = FreshVerdict(Get(matcherValue))

\* the same for the filters none of whose regular expressions has the g or
\* the y flag
SelectionPureWithoutLastIndex ==
    (matcherValue # None /\ ~StatefulFilter) =>
        matcherVerdict = FreshVerdict(Get(matcherValue))

SelectionPureReached ==
    /\ matcherValue # None
    /\ ~StatefulFilter
    /\ matcherVerdict
    /\ Get(matcherFilter).include # None
    /\ Get(matcherFilter).exclude # None

----------------------------------------------------------------------------
(* Properties of the converter cache across configurations, under SpecRebuild *)

\* the converter applyToEnvironment builds from the configuration in force
CurrentConverter(environment) ==
    Some(createBabelOptionsConverter(resolveOptions(
        filterPresetsWithEnvironment(Get(configFilteredOptions), environment))))

TransformStep(environment) == \E ctx \in RebuildContexts : Transform(environment, ctx)

\* C22: entries of the converter cache are kept within a build (a transform
\* and the applyToEnvironment of another environment leave an entry alone)
\* and replaced when the configuration changes: a transform never uses a
\* converter built from the rule list of an earlier configuration.
C22_CacheFollowsConfiguration ==
    [][\A environment \in Environments :
          /\ TransformStep(environment) =>
                /\ envState' = envState
                /\ envState[environment] = CurrentConverter(environment)
          /\ \A other \in Environments \ {environment} :
                ApplyToEnvironment(other) => envState'[environment] = envState[environment]
      ]_vars

\* the first half alone
EntriesKeptWithinBuild ==
    [][\A environment \in Environments :
          /\ TransformStep(environment) => envState' = envState
          /\ \A other \in Environments \ {environment} :
                ApplyToEnvironment(other) => envState'[environment] = envState[environment]
      ]_vars

\* the second half for a transform in an environment whose applyToEnvironment
\* has returned true for the configuration in force
FreshAfterApplyToEnvironment ==
    [][\A environment \in Environments :
          (/\ TransformStep(environment)
           /\ applied[environment] # None
           /\ Get(applied[environment]).returned) =>
                envState[environment] = CurrentConverter(environment)
      ]_vars

\* a converter of the first configuration is in the cache after the second
\* configuration was applied to its environment
StaleConverterReached ==
    \E environment \in Environments :
        /\ applied[environment] # None
        /\ ~Get(applied[environment]).returned
        /\ envState[environment] # None
        /\ lastEnv = environment
        /\ lastBabelOptions # None

----------------------------------------------------------------------------
(* Properties of the hooks when a gate function throws, under Spec *)

Installed == <<configFilteredOptions, transformFilter, envState>>

\* C23: a gate function that throws is not caught: the error leaves
\* configResolved (resp. applyToEnvironment), and the hook installs nothing:
\* the phase-filtered options, the pre-filter and the converter cache are
\* what they were before the call.
C23_ThrowingGatePropagates ==
    [][/\ \A config \in ResolvedConfigs :
            (/\ ConfigResolved(config)
             /\ filterPresetsWithConfigResolvedThrows(rawOptions, config)) =>
                /\ thrown' = Some([hook |-> "configResolved", argument |-> config])
                /\ Installed' = Installed
       /\ \A environment \in Environments :
            (/\ ApplyToEnvironment(environment)
             /\ filterPresetsWithEnvironmentThrows(Get(configFilteredOptions), environment)) =>
                /\ thrown' = Some([hook |-> "applyToEnvironment", argument |-> environment])
                /\ Installed' = Installed
      ]_vars

\* applyToEnvironment threw for one environment after it had installed the
\* converter of another
C23_Witness ==
    /\ thrown # None
    /\ Get(thrown).hook = "applyToEnvironment"
    /\ \E environment \in Environments : envState[environment] # None
    /\ envState[Get(thrown).argument] = None
    /\ applied[Get(thrown).argument] = None

\* configResolved threw: nothing is installed
ConfigResolvedThrewReached ==
    /\ thrown # None
    /\ Get(thrown).hook = "configResolved"
    /\ configFilteredOptions = None
    /\ transformFilter = None
    /\ configResolvedHookCalls # {}

----------------------------------------------------------------------------
(* Properties of the raw shapes of a path or content filter, under SpecCompile *)

\* the include list of a raw filter without exclude: p gives <<p>>, an array
\* itself, { include } its arrayified include; None for every other filter
IncludeOnlyList(raw) ==
    IF raw = None THEN None
    ELSE LET f == Get(raw) IN
         IF f.shape = "single" THEN Some(<<f.items[1]>>)
         ELSE IF f.shape = "array" THEN Some(f.items)
         ELSE IF f.include # None /\ f.exclude = None THEN Some(arrayify(Get(f.include)))
         ELSE None

\* the raw filters that spell the include-only list `list`
ShapesOf(list) ==
    {Array(list), Obj(Some(Arr(list)), None)}
        \cup (IF Len(list) = 1
              THEN {Single(list[1]), Obj(Some(One(list[1])), None)}
              ELSE {})

\* the other spellings of a raw filter
Spellings(raw) ==
    IF IncludeOnlyList(raw) = None THEN {raw} ELSE ShapesOf(Get(IncludeOnlyList(raw)))

IsBareArray(raw) == raw # None /\ Get(raw).shape = "array"

\* C24: a pattern p, the array [p] and the object { include: [p] } are the
\* same filter for both consumers: they compile to the same per-file
\* predicate and normalize to the same contribution to the pre-filter; a bare
\* array is an include list and never gives an exclude.
C24_ShapesEquivalent ==
    (presetFilter # None /\ compiledFilter # None) =>
        LET f == Get(presetFilter) IN
        /\ \A id \in Spellings(f.id), code \in Spellings(f.code) :
            /\ compilePresetFilter(Filter(id, f.moduleType, code)) = Get(compiledFilter)
            /\ normalizeGeneralHookFilter(id) = normalizeGeneralHookFilter(f.id)
            /\ normalizeGeneralHookFilter(code) = normalizeGeneralHookFilter(f.code)
            /\ unionFilters(<<id>>, "id") = unionFilters(<<f.id>>, "id")
            /\ (filterCtx # None =>
                    LET other == compilePresetFilter(Filter(id, f.moduleType, code)) IN
                    filterVerdict = CompiledPresetFilter(Get(other), Get(filterCtx)))
        /\ IsBareArray(f.id) =>
            /\ normalizeGeneralHookFilter(f.id).exclude = None
            /\ normalizeGeneralHookFilter(f.id).include = Some(Get(f.id).items)
            /\ Get(Get(Get(compiledFilter)).matchId).exclude = None
            /\ unionFilters(<<f.id>>, "id").excludes = <<>>

\* a rule whose path filter is a single pattern and whose content filter is a
\* single pattern was compiled and selected a file
C24_Witness ==
    /\ presetFilter # None
    /\ compiledFilter # None
    /\ Get(presetFilter).id # None
    /\ Get(Get(presetFilter).id).shape = "single"
    /\ Get(presetFilter).code # None
    /\ Get(Get(presetFilter).code).shape = "single"
    /\ filterCtx # None
    /\ filterVerdict

\* a rule whose path filter is a bare array of two patterns was compiled and
\* rejected a file
BareArrayReached ==
    /\ presetFilter # None
    /\ compiledFilter # None
    /\ IsBareArray(Get(presetFilter).id)
    /\ Len(Get(Get(presetFilter).id).items) = 2
    /\ filterCtx # None
    /\ ~filterVerdict

----------------------------------------------------------------------------
(* Properties of the gates' inputs, under Spec *)

\* C25: the gates do not change their input: configResolved leaves the
\* configured options as they are, applyToEnvironment leaves the configured
\* and the phase-filtered options as they are (same rules, same order, at top
\* level and in every override block); the reduced lists are new values.
C25_GatesKeepInput ==
    [][/\ \A config \in ResolvedConfigs :
            ConfigResolved(config) =>
                /\ rawOptions' = rawOptions
                /\ thrown' = None =>
                    configFilteredOptions' =
                        Some(filterPresetsWithConfigResolved(rawOptions', config))
       /\ \A environment \in Environments :
            ApplyToEnvironment(environment) =>
                /\ rawOptions' = rawOptions
                /\ configFilteredOptions' = configFilteredOptions
                /\ thrown' = None =>
                    EnvOptions(environment)' =
                        filterPresetsWithEnvironment(Get(configFilteredOptions'), environment)
      ]_vars

\* both gates removed a rule: the three values are different
C25_Witness ==
    /\ configFilteredOptions # None
    /\ Get(configFilteredOptions) # rawOptions
    /\ \E environment \in Environments :
        /\ applied[environment] # None
        /\ EnvOptions(environment) # Get(configFilteredOptions)
        /\ \E other \in Environments \ {environment} :
            /\ applied[other] # None
            /\ EnvOptions(other) # EnvOptions(environment)

----------------------------------------------------------------------------
(* Properties of pattern lists, under SpecCompile *)

SomePatternMatches(list, value) ==
    \E i \in 1..Len(list) : compilePattern(list[i], value)

EmptyInclude(raw) == IncludeListOf(raw) # None /\ Get(IncludeListOf(raw)) = <<>>

\* C26: a list of patterns matches a value iff one of its patterns does; an
\* include list that is present and empty is a predicate that is always
\* false, so a rule whose path or content include list is empty is selected
\* for no file.
C26_PatternListIsDisjunction ==
    /\ (compiledFilter # None /\ presetFilter # None
            /\ (EmptyInclude(Get(presetFilter).id) \/ EmptyInclude(Get(presetFilter).code))) =>
          /\ Compiled # None
          /\ \A ctx \in Contexts : ~CompiledPresetFilter(Get(Compiled), ctx)
    /\ filterCtx # None =>
          LET f == Get(presetFilter)
              ctx == Get(filterCtx)
          IN  /\ (filterVerdict /\ IncludeListOf(f.id) # None) =>
                    SomePatternMatches(Get(IncludeListOf(f.id)), ctx.id)
              /\ (filterVerdict /\ IncludeListOf(f.code) # None) =>
                    SomePatternMatches(Get(IncludeListOf(f.code)), ctx.code)
              /\ (filterVerdict /\ ExcludeListOf(f.id) # None) =>
                    ~SomePatternMatches(Get(ExcludeListOf(f.id)), ctx.id)
              /\ (OnlyId /\ ExcludeListOf(f.id) = None) =>
                    (filterVerdict <=> SomePatternMatches(Get(IncludeListOf(f.id)), ctx.id))
              /\ (OnlyCode /\ ExcludeListOf(f.code) = None) =>
                    (filterVerdict <=> SomePatternMatches(Get(IncludeListOf(f.code)), ctx.code))
              /\ (EmptyInclude(f.id) \/ EmptyInclude(f.code)) => ~filterVerdict

\* a path include list of two patterns accepted a path that its second
\* pattern matches and its first does not
C26_Witness ==
    /\ filterCtx # None
    /\ OnlyId
    /\ ExcludeListOf(Get(presetFilter).id) = None
    /\ Len(Get(IncludeListOf(Get(presetFilter).id))) = 2
    /\ ~compilePattern(Get(IncludeListOf(Get(presetFilter).id))[1], Get(filterCtx).id)
    /\ compilePattern(Get(IncludeListOf(Get(presetFilter).id))[2], Get(filterCtx).id)
    /\ filterVerdict

\* a rule whose content include list is empty was called and rejected the file
EmptyIncludeReached ==
    /\ filterCtx # None
    /\ Get(presetFilter).id = None
    /\ EmptyInclude(Get(presetFilter).code)
    /\ ~filterVerdict

----------------------------------------------------------------------------
(* Properties of the pre-filter and the override blocks, under Spec *)

\* override block i of the returned configuration brings a plugin or a
\* selected preset
OverrideContributes(i) ==
    LET override == Get(BabelOptions.overrides)[i] IN
    \/ override.plugins # None /\ Len(Get(override.plugins)) > 0
    \/ override.presets # None /\ Len(Get(override.presets)) > 0

SomeOverrideContributes ==
    /\ BabelOptions.overrides # None
    /\ \E i \in 1..Len(Get(BabelOptions.overrides)) : OverrideContributes(i)

\* C27: the pre-filter is conservative for the override blocks too: for a
\* file that it rejects although the user-level path filter accepts the path,
\* no override block brings a plugin or a selected preset.
C27_PreFilterSoundForOverrides ==
    (lastCtx # None /\ PreFilterRejects(PreFilter, Ctx) /\ ~UserFilterRejects(Ctx))
        => ~SomeOverrideContributes

\* the pre-filter was computed from the top-level rules alone and rejects a
\* file for which an override block brings a plugin
OverrideCutOffReached ==
    /\ lastCtx # None
    /\ PreFilterRejects(PreFilter, Ctx)
    /\ ~UserFilterRejects(Ctx)
    /\ NoRuleSelected
    /\ BabelOptions.overrides # None
    /\ Len(Get(BabelOptions.overrides)) = 1
    /\ Get(BabelOptions.overrides)[1].plugins = Some(<<"plugin">>)

----------------------------------------------------------------------------
(* Properties of the pre-filter of a sub-list of the rules, under Spec *)

HasRules(options) == options.presets # None /\ Len(Get(options.presets)) > 0
HasPlugins(options) == options.plugins # None /\ Len(Get(options.plugins)) > 0

\* the pre-filter computed from the rules left for the environment
EnvironmentFilter(environment) ==
    calculatePluginFilters(resolveOptions(EnvOptions(environment))).transformFilter

\* the environment's rule list is a non-empty sub-list of the phase-filtered
\* list, with the same user settings and without explicit plugins
SubListApplied(environment) ==
    /\ applied[environment] # None
    /\ HasRules(EnvOptions(environment))
    /\ ~HasPlugins(EnvOptions(environment))

\* C28: removing rules never widens the pre-filter: every file accepted by
\* the pre-filter of a non-empty sub-list of the rules is accepted by the
\* pre-filter of the whole list, so the pre-filter of the phase-filtered list
\* is safe for the list of every environment.
C28_SubListMonotone ==
    \A environment \in Environments :
        SubListApplied(environment) =>
            \A ctx \in Contexts :
                ~PreFilterRejects(EnvironmentFilter(environment), ctx)
                    => ~PreFilterRejects(PreFilter, ctx)

\* a rule of the list has a path or content include list that is empty
HasEmptyInclude(options) ==
    \E i \in 1..Len(Get(options.presets)) :
        LET preset == Get(options.presets)[i] IN
        /\ preset.rolldown
        /\ preset.filter # None
        /\ (EmptyInclude(Get(preset.filter).id) \/ EmptyInclude(Get(preset.filter).code))

\* the same for lists none of whose rules has an empty include list
SubListMonotoneWithoutEmptyInclude ==
    \A environment \in Environments :
        (SubListApplied(environment) /\ ~HasEmptyInclude(EnvOptions(environment))) =>
            \A ctx \in Contexts :
                ~PreFilterRejects(EnvironmentFilter(environment), ctx)
                    => ~PreFilterRejects(PreFilter, ctx)

\* the environment gate removed a rule and the two pre-filters differ
SubListReached ==
    \E environment \in Environments :
        /\ SubListApplied(environment)
        /\ ~HasEmptyInclude(EnvOptions(environment))
        /\ EnvOptions(environment).presets # Get(configFilteredOptions).presets
        /\ EnvironmentFilter(environment) # PreFilter

----------------------------------------------------------------------------
(* Properties of the content entry of the pre-filter, under Spec *)

\* the content include and exclude lists of rule i (None when it has none)
RuleContentInclude(i) == IncludeListOf(Get(Get(FilterOptions.presets)[i].filter).code)
RuleContentExclude(i) == ExcludeListOf(Get(Get(FilterOptions.presets)[i].filter).code)
RulePathInclude(i) == IncludeListOf(Get(Get(FilterOptions.presets)[i].filter).id)

FilterRuleIndexes == 1..Len(Get(FilterOptions.presets))

\* the patterns that every rule lists in its content exclude
ContentExcludedByEveryRule ==
    { p \in UNION { IF RuleContentExclude(i) = None THEN {}
                    ELSE Range(Get(RuleContentExclude(i))) : i \in FilterRuleIndexes } :
        \A i \in FilterRuleIndexes :
            /\ RuleContentExclude(i) # None
            /\ p \in Range(Get(RuleContentExclude(i))) }

\* the rules' content include / path include is match-all: some rule has none
ContentIncludeMatchAll == \E i \in FilterRuleIndexes : RuleContentInclude(i) = None
PathIncludeMatchAll == \E i \in FilterRuleIndexes : RulePathInclude(i) = None

\* C29: the content entry of the pre-filter has an exclude list only next to
\* an include list: when the rules' content include is match-all there is no
\* content entry and the content excludes shared by every rule are dropped;
\* the path excludes shared by every rule are kept even when the rules' path
\* include is match-all.
C29_ContentExcludeNeedsInclude ==
    (transformFilter # None /\ NoPlugins /\ AllRulesFiltered) =>
        /\ ContentIncludeMatchAll => PreFilter.code = None
        /\ PreFilter.code # None =>
            /\ Get(PreFilter.code).include # <<>>
            /\ \A i \in FilterRuleIndexes :
                  Range(Get(RuleContentInclude(i))) \subseteq Range(Get(PreFilter.code).include)
            /\ IF Get(PreFilter.code).exclude = None
               THEN ContentExcludedByEveryRule = {}
               ELSE Range(Get(Get(PreFilter.code).exclude)) = ContentExcludedByEveryRule
        /\ PathIncludeMatchAll => PatternsExcludedByEveryRule \subseteq Range(PathExclude)

\* every rule excludes a content pattern, none has a content include: there
\* is no content entry
C29_Witness ==
    /\ transformFilter # None /\ NoPlugins /\ AllRulesFiltered
    /\ ContentIncludeMatchAll
    /\ ContentExcludedByEveryRule # {}
    /\ PreFilter.code = None

\* every rule excludes a path pattern, none has a path include: the path
\* entry holds the shared patterns
PathExcludesKeptReached ==
    /\ transformFilter # None /\ NoPlugins /\ AllRulesFiltered
    /\ UserInclude = None
    /\ \A i \in FilterRuleIndexes : RulePathInclude(i) = None
    /\ PatternsExcludedByEveryRule # {}
    /\ PatternsExcludedByEveryRule \subseteq Range(PathExclude)

\* a content entry with include and exclude
ContentEntryWithExcludeReached ==
    /\ transformFilter # None /\ NoPlugins /\ AllRulesFiltered
    /\ PreFilter.code # None
    /\ Get(PreFilter.code).exclude # None

----------------------------------------------------------------------------
(* Properties of outputOptions under Vite, under Spec *)

\* C30: under Vite outputOptions changes nothing: the converter cache and the
\* pre-filter are what configResolved and applyToEnvironment made them, so
\* that none of them is ever built from the ungated raw options: there is no
\* converter under the undefined key, the converter of an environment is the
\* one of its environment-filtered options, and the pre-filter is the one of
\* the phase-filtered options.
C30_OutputOptionsInertUnderVite ==
    viteVersion =>
        /\ envState[UndefinedEnv] = None
        /\ \A environment \in Environments :
            envState[environment] # None =>
                /\ applied[environment] # None
                /\ envState[environment] =
                    Some(createBabelOptionsConverter(resolveOptions(EnvOptions(environment))))
        /\ IF configFilteredOptions = None THEN transformFilter = None
           ELSE transformFilter =
                    Some(calculatePluginFilters(
                            resolveOptions(Get(configFilteredOptions))).transformFilter)

\* outputOptions was called under Vite after the gates had removed rules at
\* both stages; the cache and the pre-filter differ from what the raw options
\* give
C30_Witness ==
    /\ viteVersion
    /\ outputOptionsCalled
    /\ transformFilter # None
    /\ transformFilter # Some(calculatePluginFilters(resolveOptions(rawOptions)).transformFilter)
    /\ \E environment \in Environments :
        /\ envState[environment] # None
        /\ envState[environment] # Some(createBabelOptionsConverter(resolveOptions(rawOptions)))

====
